---- MODULE Spec2Model ----
\* Photoshop agent: the Socket.IO command sender, send_photoshop_command, and
\* the tool wrappers built on it (backend/agentic-workflow/agent_trial.py).
\*
\* One call of send_photoshop_command is three concurrent parties: the calling
\* thread (blocked in response_queue.get), the background thread run(), and
\* the Socket.IO client, which delivers the events connect, packet_response,
\* disconnect and connect_error to the handlers registered by the call.
\* The client library and the proxy are the environment: what they may do is
\* a nondeterministic choice among the steps below.
EXTENDS Integers, Sequences, FiniteSets, TLC

\* ---------------------------------------------------------------- bounds
\* layer and document ids range over 0..MaxId
MaxId == 1
\* how many times the client re-establishes a dropped connection
MaxReconnects == 1
\* how many times the interactive loop of main() reads its input
MaxInputs == 3

\* the calls of send_photoshop_command that may be in progress together
Calls == {1, 2}

\* ---------------------------------------------------------- Python values
\* A Python value is a record with one field, named after its type, that
\* holds its content; None is a value like any other.
None == [none |-> TRUE]
PyInt(n) == [int |-> n]
PyStr(s) == [str |-> s]
PyList(l) == [list |-> l]
PyDict(d) == [dict |-> d]
\* e of connect_error(e), and the exception caught in run()
PyErr(s) == [exception |-> s]

IsNone(x) == "none" \in DOMAIN x

\* Python truth value testing: `not x`
Falsy(x) ==
  CASE "none" \in DOMAIN x -> TRUE
    [] "int" \in DOMAIN x  -> x.int = 0
    [] "str" \in DOMAIN x  -> x.str = ""
    [] "list" \in DOMAIN x -> x.list = <<>>
    [] "dict" \in DOMAIN x -> DOMAIN x.dict = {}
    [] OTHER               -> FALSE

\* int(x) of an int argument; every wrapper tests an argument before it
\* converts it, so the other branch stands for a conversion never reached
int(x) == IF "int" \in DOMAIN x THEN x.int ELSE 0

\* dict.get(key, default) on the mapping held by a dict value
Get(d, key, default) == IF key \in DOMAIN d.dict THEN d.dict[key] ELSE default

\* an options mapping without keys: {}
EmptyOptions == <<>>

\* ----------------------------------------------------------- tool wrappers
\* Each wrapper is given as the record of what its body does with the keyword
\* arguments a: the missing-argument test and the string returned for it (its
\* fixed opening and the parameter names it lists), the
\* action and options handed to send_photoshop_command, and the strings
\* returned for a reply with status SUCCESS and for any other reply
\* (carries: the failure string interpolates the reply's message).
\* Optional parameters stand at their defaults.

\* create_document, agent_trial.py lines 93-110
create_document(a) ==
  [ missing |-> Falsy(a.document_name) \/ Falsy(a.width) \/ Falsy(a.height),
    error   |-> <<" Missing required: ", "document_name, width, height">>,
    action  |-> "createDocument",
    options |-> [name |-> a.document_name,
                 width |-> int(a.width),
                 height |-> int(a.height),
                 resolution |-> 72,
                 fillColor |-> [red |-> 255, green |-> 255, blue |-> 255],
                 colorMode |-> "RGB"],
    success |-> "Created document '{doc.get('name')}' (ID: {doc.get('id')})",
    failure |-> " Failed: ",
    carries |-> TRUE ]

\* get_documents, agent_trial.py lines 113-123
get_documents(a) ==
  [ missing |-> FALSE,
    error   |-> <<"", "">>,
    action  |-> "getDocuments",
    options |-> EmptyOptions,
    success |-> "Open documents:{...}",
    successEmpty |-> "No documents open",
    failure |-> " Failed to get documents",
    carries |-> FALSE ]

\* get_layers, agent_trial.py lines 126-136
get_layers(a) ==
  [ missing |-> FALSE,
    error   |-> <<"", "">>,
    action  |-> "getLayers",
    options |-> EmptyOptions,
    success |-> "Layers:{...}",
    successEmpty |-> "No layers found",
    failure |-> " Failed to get layers",
    carries |-> FALSE ]

\* create_text_layer, agent_trial.py lines 139-158
create_text_layer(a) ==
  [ missing |-> Falsy(a.layer_name) \/ Falsy(a.text),
    error   |-> <<" Missing required: ", "layer_name, text">>,
    action  |-> "createSingleLineTextLayer",
    options |-> [layerName |-> a.layer_name,
                 contents |-> a.text,
                 fontSize |-> 24,
                 fontName |-> "ArialMT",
                 textColor |-> [red |-> 255, green |-> 255, blue |-> 255],
                 position |-> [x |-> 100, y |-> 100],
                 opacity |-> 100,
                 blendMode |-> "NORMAL"],
    success |-> "Created text layer '{layer_name}'",
    failure |-> " Failed: ",
    carries |-> TRUE ]

\* create_pixel_layer, agent_trial.py lines 161-175
create_pixel_layer(a) ==
  [ missing |-> Falsy(a.layer_name),
    error   |-> <<" Missing required: ", "layer_name">>,
    action  |-> "createPixelLayer",
    options |-> [layerName |-> a.layer_name,
                 opacity |-> 100,
                 blendMode |-> "NORMAL",
                 fillNeutral |-> FALSE],
    success |-> "Created pixel layer '{layer_name}'",
    failure |-> " Failed: ",
    carries |-> TRUE ]

\* delete_layer, agent_trial.py lines 178-188
delete_layer(a) ==
  [ missing |-> IsNone(a.layer_id),
    error   |-> <<" Missing required: ", "layer_id">>,
    action  |-> "deleteLayer",
    options |-> [layerId |-> int(a.layer_id)],
    success |-> "Deleted layer {layer_id}",
    failure |-> " Failed: ",
    carries |-> TRUE ]

\* fill_selection, agent_trial.py lines 191-205
fill_selection(a) ==
  [ missing |-> IsNone(a.layer_id),
    error   |-> <<" Missing required: ", "layer_id">>,
    action  |-> "fillSelection",
    options |-> [layerId |-> int(a.layer_id),
                 color |-> [red |-> 255, green |-> 0, blue |-> 0],
                 opacity |-> 100,
                 blendMode |-> "NORMAL"],
    success |-> "Filled selection on layer {layer_id}",
    failure |-> " Failed: ",
    carries |-> TRUE ]

\* select_rectangle, agent_trial.py lines 208-222
select_rectangle(a) ==
  [ missing |-> IsNone(a.layer_id),
    error   |-> <<" Missing required: ", "layer_id">>,
    action  |-> "selectRectangle",
    options |-> [layerId |-> int(a.layer_id),
                 feather |-> 0,
                 antiAlias |-> TRUE,
                 bounds |-> [top |-> 0, left |-> 0, bottom |-> 100, right |-> 100]],
    success |-> "Created rectangular selection",
    failure |-> " Failed: ",
    carries |-> TRUE ]

\* save_document, agent_trial.py lines 225-237
save_document(a) ==
  [ missing |-> Falsy(a.file_path),
    error   |-> <<" Missing required: ", "file_path">>,
    action  |-> "saveDocumentAs",
    options |-> [filePath |-> a.file_path,
                 fileType |-> "PSD"],
    success |-> "Saved to {file_path}",
    failure |-> " Failed: ",
    carries |-> TRUE ]

\* generate_image, agent_trial.py lines 240-253
generate_image(a) ==
  [ missing |-> Falsy(a.layer_name) \/ Falsy(a.prompt),
    error   |-> <<" Missing required: ", "layer_name, prompt">>,
    action  |-> "generateImage",
    options |-> [layerName |-> a.layer_name,
                 prompt |-> a.prompt,
                 contentType |-> "none"],
    success |-> "Generated image on layer '{layer_name}'",
    failure |-> " Failed: ",
    carries |-> TRUE ]

\* apply_gaussian_blur, agent_trial.py lines 256-268
apply_gaussian_blur(a) ==
  [ missing |-> IsNone(a.layer_id),
    error   |-> <<" Missing required: ", "layer_id">>,
    action  |-> "applyGaussianBlur",
    options |-> [layerId |-> int(a.layer_id),
                 radius |-> 5],
    success |-> "Applied Gaussian blur to layer {layer_id}",
    failure |-> " Failed: ",
    carries |-> TRUE ]

\* apply_motion_blur, agent_trial.py lines 271-283
apply_motion_blur(a) ==
  [ missing |-> IsNone(a.layer_id),
    error   |-> <<" Missing required: ", "layer_id">>,
    action  |-> "applyMotionBlur",
    options |-> [layerId |-> int(a.layer_id),
                 angle |-> 0,
                 distance |-> 30],
    success |-> "Applied motion blur to layer {layer_id}",
    failure |-> " Failed: ",
    carries |-> TRUE ]

\* set_active_document, agent_trial.py lines 286-296
set_active_document(a) ==
  [ missing |-> IsNone(a.document_id),
    error   |-> <<" Missing required: ", "document_id">>,
    action  |-> "setActiveDocument",
    options |-> [documentId |-> int(a.document_id)],
    success |-> "Set active document {document_id}",
    failure |-> " Failed: ",
    carries |-> TRUE ]

\* create_gradient_layer_style, agent_trial.py lines 299-313
create_gradient_layer_style(a) ==
  [ missing |-> IsNone(a.layer_id) \/ Falsy(a.color_stops) \/ Falsy(a.opacity_stops),
    error   |-> <<" Missing required: ", "layer_id, color_stops, opacity_stops">>,
    action  |-> "createGradientLayerStyle",
    options |-> [layerId |-> int(a.layer_id),
                 angle |-> 0,
                 type |-> "linear",
                 colorStops |-> a.color_stops,
                 opacityStops |-> a.opacity_stops],
    success |-> "Created gradient on layer {layer_id}",
    failure |-> " Failed: ",
    carries |-> TRUE ]

\* duplicate_document, agent_trial.py lines 316-326
duplicate_document(a) ==
  [ missing |-> Falsy(a.document_name),
    error   |-> <<" Missing required: ", "document_name">>,
    action  |-> "duplicateDocument",
    options |-> [name |-> a.document_name],
    success |-> "Duplicated document as '{document_name}'",
    failure |-> " Failed: ",
    carries |-> TRUE ]

\* export_layers_as_png, agent_trial.py lines 329-339
export_layers_as_png(a) ==
  [ missing |-> Falsy(a.layers_info),
    error   |-> <<" Missing required: ", "layers_info">>,
    action  |-> "exportLayersAsPng",
    options |-> [layersInfo |-> a.layers_info],
    success |-> "Exported layers as PNG",
    failure |-> " Failed: ",
    carries |-> TRUE ]

\* group_layers, agent_trial.py lines 342-352
group_layers(a) ==
  [ missing |-> Falsy(a.group_name) \/ Falsy(a.layer_ids),
    error   |-> <<" Missing required: ", "group_name, layer_ids">>,
    action  |-> "groupLayers",
    options |-> [groupName |-> a.group_name,
                 layerIds |-> a.layer_ids],
    success |-> "Grouped layers as '{group_name}'",
    failure |-> " Failed: ",
    carries |-> TRUE ]

\* place_image, agent_trial.py lines 355-365
place_image(a) ==
  [ missing |-> IsNone(a.layer_id) \/ Falsy(a.image_path),
    error   |-> <<" Missing required: ", "layer_id, image_path">>,
    action  |-> "placeImage",
    options |-> [layerId |-> int(a.layer_id),
                 imagePath |-> a.image_path],
    success |-> "Placed image on layer {layer_id}",
    failure |-> " Failed: ",
    carries |-> TRUE ]

\* harmonize_layer, agent_trial.py lines 368-380
harmonize_layer(a) ==
  [ missing |-> IsNone(a.layer_id) \/ Falsy(a.new_layer_name),
    error   |-> <<" Missing required: ", "layer_id, new_layer_name">>,
    action  |-> "harmonizeLayer",
    options |-> [layerId |-> int(a.layer_id),
                 newLayerName |-> a.new_layer_name,
                 rasterizeLayer |-> TRUE],
    success |-> "Harmonized layer {layer_id}",
    failure |-> " Failed: ",
    carries |-> TRUE ]

\* rename_layers, agent_trial.py lines 383-393
rename_layers(a) ==
  [ missing |-> Falsy(a.layer_data),
    error   |-> <<" Missing required: ", "layer_data">>,
    action  |-> "renameLayers",
    options |-> [layerData |-> a.layer_data],
    success |-> "Renamed layers",
    failure |-> " Failed: ",
    carries |-> TRUE ]

\* scale_layer, agent_trial.py lines 396-410
scale_layer(a) ==
  [ missing |-> IsNone(a.layer_id) \/ IsNone(a.width) \/ IsNone(a.height),
    error   |-> <<" Missing required: ", "layer_id, width, height">>,
    action  |-> "scaleLayer",
    options |-> [layerId |-> int(a.layer_id),
                 width |-> int(a.width),
                 height |-> int(a.height),
                 anchorPosition |-> "MIDDLECENTER",
                 interpolationMethod |-> "AUTOMATIC"],
    success |-> "Scaled layer {layer_id}",
    failure |-> " Failed: ",
    carries |-> TRUE ]

\* rotate_layer, agent_trial.py lines 413-427
rotate_layer(a) ==
  [ missing |-> IsNone(a.layer_id),
    error   |-> <<" Missing required: ", "layer_id">>,
    action  |-> "rotateLayer",
    options |-> [layerId |-> int(a.layer_id),
                 angle |-> 0,
                 anchorPosition |-> "MIDDLECENTER",
                 interpolationMethod |-> "AUTOMATIC"],
    success |-> "Rotated layer {layer_id}",
    failure |-> " Failed: ",
    carries |-> TRUE ]

\* flip_layer, agent_trial.py lines 430-440
flip_layer(a) ==
  [ missing |-> IsNone(a.layer_id),
    error   |-> <<" Missing required: ", "layer_id">>,
    action  |-> "flipLayer",
    options |-> [layerId |-> int(a.layer_id),
                 axis |-> "HORIZONTAL"],
    success |-> "Flipped layer {layer_id}",
    failure |-> " Failed: ",
    carries |-> TRUE ]

\* set_layer_visibility, agent_trial.py lines 443-453
set_layer_visibility(a) ==
  [ missing |-> IsNone(a.layer_id),
    error   |-> <<" Missing required: ", "layer_id">>,
    action  |-> "setLayerVisibility",
    options |-> [layerId |-> int(a.layer_id),
                 visible |-> TRUE],
    success |-> "Set layer {layer_id} visibility to {visible}",
    failure |-> " Failed: ",
    carries |-> TRUE ]

\* generative_fill as it would be if its test left out layer_id
generative_fill_untested_id(a) ==
  [ missing |-> Falsy(a.layer_name) \/ Falsy(a.prompt),
    error   |-> <<" Missing required: ", "layer_name, prompt, layer_id">>,
    action  |-> "generativeFill",
    options |-> [layerName |-> a.layer_name,
                 prompt |-> a.prompt,
                 layerId |-> int(a.layer_id),
                 contentType |-> "none"],
    success |-> "Generative fill applied on layer '{layer_name}'",
    failure |-> " Failed: ",
    carries |-> TRUE ]

\* generative_fill, agent_trial.py lines 456-469
generative_fill(a) ==
  [ missing |-> Falsy(a.layer_name) \/ Falsy(a.prompt) \/ IsNone(a.layer_id),
    error   |-> <<" Missing required: ", "layer_name, prompt, layer_id">>,
    action  |-> "generativeFill",
    options |-> [layerName |-> a.layer_name,
                 prompt |-> a.prompt,
                 layerId |-> int(a.layer_id),
                 contentType |-> "none"],
    success |-> "Generative fill applied on layer '{layer_name}'",
    failure |-> " Failed: ",
    carries |-> TRUE ]

\* move_layer, agent_trial.py lines 472-482
move_layer(a) ==
  [ missing |-> IsNone(a.layer_id) \/ Falsy(a.position),
    error   |-> <<" Missing required: ", "layer_id, position">>,
    action  |-> "moveLayer",
    options |-> [layerId |-> int(a.layer_id),
                 position |-> a.position],
    success |-> "Moved layer {layer_id}",
    failure |-> " Failed: ",
    carries |-> TRUE ]

\* get_document_info, agent_trial.py lines 485-493
get_document_info(a) ==
  [ missing |-> FALSE,
    error   |-> <<"", "">>,
    action  |-> "getDocumentInfo",
    options |-> EmptyOptions,
    success |-> "Document: {doc.get('name')} ({doc.get('width')}x{doc.get('height')})",
    failure |-> " Failed to get document info",
    carries |-> FALSE ]

\* crop_document, agent_trial.py lines 496-503
crop_document(a) ==
  [ missing |-> FALSE,
    error   |-> <<"", "">>,
    action  |-> "cropDocument",
    options |-> EmptyOptions,
    success |-> "Cropped document",
    failure |-> " Failed: ",
    carries |-> TRUE ]

\* paste_from_clipboard, agent_trial.py lines 506-518
paste_from_clipboard(a) ==
  [ missing |-> IsNone(a.layer_id),
    error   |-> <<" Missing required: ", "layer_id">>,
    action  |-> "pasteFromClipboard",
    options |-> [layerId |-> int(a.layer_id),
                 pasteInPlace |-> TRUE],
    success |-> "Pasted from clipboard to layer {layer_id}",
    failure |-> " Failed: ",
    carries |-> TRUE ]

\* rasterize_layer, agent_trial.py lines 521-531
rasterize_layer(a) ==
  [ missing |-> IsNone(a.layer_id),
    error   |-> <<" Missing required: ", "layer_id">>,
    action  |-> "rasterizeLayer",
    options |-> [layerId |-> int(a.layer_id)],
    success |-> "Rasterized layer {layer_id}",
    failure |-> " Failed: ",
    carries |-> TRUE ]

\* open_photoshop_file, agent_trial.py lines 534-544
open_photoshop_file(a) ==
  [ missing |-> Falsy(a.file_path),
    error   |-> <<" Missing required: ", "file_path">>,
    action  |-> "openFile",
    options |-> [filePath |-> a.file_path],
    success |-> "Opened file '{file_path}'",
    failure |-> " Failed: ",
    carries |-> TRUE ]

\* cut_selection_to_clipboard, agent_trial.py lines 547-557
cut_selection_to_clipboard(a) ==
  [ missing |-> IsNone(a.layer_id),
    error   |-> <<" Missing required: ", "layer_id">>,
    action  |-> "cutSelectionToClipboard",
    options |-> [layerId |-> int(a.layer_id)],
    success |-> "Cut selection to clipboard",
    failure |-> " Failed: ",
    carries |-> TRUE ]

\* copy_merged_selection_to_clipboard, agent_trial.py lines 560-567
copy_merged_selection_to_clipboard(a) ==
  [ missing |-> FALSE,
    error   |-> <<"", "">>,
    action  |-> "copyMergedSelectionToClipboard",
    options |-> EmptyOptions,
    success |-> "Copied merged selection to clipboard",
    failure |-> " Failed: ",
    carries |-> TRUE ]

\* copy_selection_to_clipboard, agent_trial.py lines 570-580
copy_selection_to_clipboard(a) ==
  [ missing |-> IsNone(a.layer_id),
    error   |-> <<" Missing required: ", "layer_id">>,
    action  |-> "copySelectionToClipboard",
    options |-> [layerId |-> int(a.layer_id)],
    success |-> "Copied selection to clipboard",
    failure |-> " Failed: ",
    carries |-> TRUE ]

\* select_subject, agent_trial.py lines 583-593
select_subject(a) ==
  [ missing |-> IsNone(a.layer_id),
    error   |-> <<" Missing required: ", "layer_id">>,
    action  |-> "selectSubject",
    options |-> [layerId |-> int(a.layer_id)],
    success |-> "Selected subject in layer {layer_id}",
    failure |-> " Failed: ",
    carries |-> TRUE ]

\* select_sky, agent_trial.py lines 596-606
select_sky(a) ==
  [ missing |-> IsNone(a.layer_id),
    error   |-> <<" Missing required: ", "layer_id">>,
    action  |-> "selectSky",
    options |-> [layerId |-> int(a.layer_id)],
    success |-> "Selected sky in layer {layer_id}",
    failure |-> " Failed: ",
    carries |-> TRUE ]

\* get_layer_bounds, agent_trial.py lines 609-620
get_layer_bounds(a) ==
  [ missing |-> IsNone(a.layer_id),
    error   |-> <<" Missing required: ", "layer_id">>,
    action  |-> "getLayerBounds",
    options |-> [layerId |-> int(a.layer_id)],
    success |-> "Layer bounds: top={bounds.get('top')}, left={bounds.get('left')}, bottom={bounds.get('bottom')}, right={bounds.get('right')}",
    failure |-> " Failed: ",
    carries |-> TRUE ]

\* remove_background, agent_trial.py lines 623-633
remove_background(a) ==
  [ missing |-> IsNone(a.layer_id),
    error   |-> <<" Missing required: ", "layer_id">>,
    action  |-> "removeBackground",
    options |-> [layerId |-> int(a.layer_id)],
    success |-> "Removed background from layer {layer_id}",
    failure |-> " Failed: ",
    carries |-> TRUE ]

\* create_multi_line_text_layer, agent_trial.py lines 636-659
create_multi_line_text_layer(a) ==
  [ missing |-> Falsy(a.layer_name) \/ Falsy(a.text),
    error   |-> <<" Missing required: ", "layer_name, text">>,
    action  |-> "createMultiLineTextLayer",
    options |-> [layerName |-> a.layer_name,
                 contents |-> a.text,
                 fontSize |-> 24,
                 fontName |-> "ArialMT",
                 opacity |-> 100,
                 position |-> [x |-> 100, y |-> 100],
                 textColor |-> [red |-> 255, green |-> 255, blue |-> 255],
                 blendMode |-> "NORMAL",
                 bounds |-> [top |-> 0, left |-> 0, bottom |-> 250, right |-> 300],
                 justification |-> "LEFT"],
    success |-> "Created multi-line text layer '{layer_name}'",
    failure |-> " Failed: ",
    carries |-> TRUE ]

\* edit_text_layer, agent_trial.py lines 662-676
edit_text_layer(a) ==
  [ missing |-> IsNone(a.layer_id),
    error   |-> <<" Missing required: ", "layer_id">>,
    action  |-> "editTextLayer",
    options |-> [layerId |-> int(a.layer_id),
                 contents |-> None,
                 fontSize |-> None,
                 fontName |-> None,
                 textColor |-> None],
    success |-> "Edited text layer {layer_id}",
    failure |-> " Failed: ",
    carries |-> TRUE ]

\* translate_layer, agent_trial.py lines 679-691
translate_layer(a) ==
  [ missing |-> IsNone(a.layer_id),
    error   |-> <<" Missing required: ", "layer_id">>,
    action  |-> "translateLayer",
    options |-> [layerId |-> int(a.layer_id),
                 xOffset |-> 0,
                 yOffset |-> 0],
    success |-> "Translated layer {layer_id}",
    failure |-> " Failed: ",
    carries |-> TRUE ]

\* remove_layer_mask, agent_trial.py lines 694-704
remove_layer_mask(a) ==
  [ missing |-> IsNone(a.layer_id),
    error   |-> <<" Missing required: ", "layer_id">>,
    action  |-> "removeLayerMask",
    options |-> [layerId |-> int(a.layer_id)],
    success |-> "Removed layer mask",
    failure |-> " Failed: ",
    carries |-> TRUE ]

\* add_layer_mask_from_selection, agent_trial.py lines 707-717
add_layer_mask_from_selection(a) ==
  [ missing |-> IsNone(a.layer_id),
    error   |-> <<" Missing required: ", "layer_id">>,
    action  |-> "addLayerMask",
    options |-> [layerId |-> int(a.layer_id)],
    success |-> "Added layer mask",
    failure |-> " Failed: ",
    carries |-> TRUE ]

\* set_layer_properties, agent_trial.py lines 720-735
set_layer_properties(a) ==
  [ missing |-> IsNone(a.layer_id),
    error   |-> <<" Missing required: ", "layer_id">>,
    action  |-> "setLayerProperties",
    options |-> [layerId |-> int(a.layer_id),
                 blendMode |-> "NORMAL",
                 layerOpacity |-> 100,
                 fillOpacity |-> 100,
                 isClippingMask |-> FALSE],
    success |-> "Set layer properties",
    failure |-> " Failed: ",
    carries |-> TRUE ]

\* delete_selection, agent_trial.py lines 738-748
delete_selection(a) ==
  [ missing |-> IsNone(a.layer_id),
    error   |-> <<" Missing required: ", "layer_id">>,
    action  |-> "deleteSelection",
    options |-> [layerId |-> int(a.layer_id)],
    success |-> "Deleted selection",
    failure |-> " Failed: ",
    carries |-> TRUE ]

\* invert_selection, agent_trial.py lines 751-758
invert_selection(a) ==
  [ missing |-> FALSE,
    error   |-> <<"", "">>,
    action  |-> "invertSelection",
    options |-> EmptyOptions,
    success |-> "Inverted selection",
    failure |-> " Failed: ",
    carries |-> TRUE ]

\* clear_selection, agent_trial.py lines 761-770
clear_selection(a) ==
  [ missing |-> FALSE,
    error   |-> <<"", "">>,
    action  |-> "selectRectangle",
    options |-> [feather |-> 0,
                 antiAlias |-> TRUE,
                 bounds |-> [top |-> 0, left |-> 0, bottom |-> 0, right |-> 0]],
    success |-> "Cleared selection",
    failure |-> " Failed: ",
    carries |-> TRUE ]

\* select_polygon, agent_trial.py lines 773-786
select_polygon(a) ==
  [ missing |-> IsNone(a.layer_id) \/ Falsy(a.points),
    error   |-> <<" Missing required: ", "layer_id, points">>,
    action  |-> "selectPolygon",
    options |-> [layerId |-> int(a.layer_id),
                 feather |-> 0,
                 antiAlias |-> TRUE,
                 points |-> a.points],
    success |-> "Created polygon selection",
    failure |-> " Failed: ",
    carries |-> TRUE ]

\* select_ellipse, agent_trial.py lines 789-803
select_ellipse(a) ==
  [ missing |-> IsNone(a.layer_id),
    error   |-> <<" Missing required: ", "layer_id">>,
    action  |-> "selectEllipse",
    options |-> [layerId |-> int(a.layer_id),
                 feather |-> 0,
                 antiAlias |-> TRUE,
                 bounds |-> [top |-> 0, left |-> 0, bottom |-> 100, right |-> 100]],
    success |-> "Created elliptical selection",
    failure |-> " Failed: ",
    carries |-> TRUE ]

\* align_content, agent_trial.py lines 806-818
align_content(a) ==
  [ missing |-> IsNone(a.layer_id) \/ Falsy(a.alignment_mode),
    error   |-> <<" Missing required: ", "layer_id, alignment_mode">>,
    action  |-> "alignContent",
    options |-> [layerId |-> int(a.layer_id),
                 alignmentMode |-> a.alignment_mode],
    success |-> "Aligned content",
    failure |-> " Failed: ",
    carries |-> TRUE ]

\* add_drop_shadow_layer_style, agent_trial.py lines 821-837
add_drop_shadow_layer_style(a) ==
  [ missing |-> IsNone(a.layer_id),
    error   |-> <<" Missing required: ", "layer_id">>,
    action  |-> "addDropShadowLayerStyle",
    options |-> [layerId |-> int(a.layer_id),
                 blendMode |-> "MULTIPLY",
                 color |-> [red |-> 0, green |-> 0, blue |-> 0],
                 opacity |-> 35,
                 angle |-> 160,
                 distance |-> 3,
                 spread |-> 0,
                 size |-> 7],
    success |-> "Added drop shadow",
    failure |-> " Failed: ",
    carries |-> TRUE ]

\* duplicate_layer, agent_trial.py lines 840-852
duplicate_layer(a) ==
  [ missing |-> IsNone(a.layer_to_duplicate_id) \/ Falsy(a.duplicate_layer_name),
    error   |-> <<" Missing required: ", "layer_to_duplicate_id, duplicate_layer_name">>,
    action  |-> "duplicateLayer",
    options |-> [sourceLayerId |-> int(a.layer_to_duplicate_id),
                 duplicateLayerName |-> a.duplicate_layer_name],
    success |-> "Duplicated layer as '{duplicate_layer_name}'",
    failure |-> " Failed: ",
    carries |-> TRUE ]

\* flatten_all_layers, agent_trial.py lines 855-865
flatten_all_layers(a) ==
  [ missing |-> Falsy(a.layer_name),
    error   |-> <<" Missing required: ", "layer_name">>,
    action  |-> "flattenAllLayers",
    options |-> [layerName |-> a.layer_name],
    success |-> "Flattened layers",
    failure |-> " Failed: ",
    carries |-> TRUE ]

\* add_color_balance_adjustment_layer, agent_trial.py lines 868-885
add_color_balance_adjustment_layer(a) ==
  [ missing |-> IsNone(a.layer_id),
    error   |-> <<" Missing required: ", "layer_id">>,
    action  |-> "addColorBalanceAdjustmentLayer",
    options |-> [layerId |-> int(a.layer_id),
                 highlights |-> <<0, 0, 0>>,
                 midtones |-> <<0, 0, 0>>,
                 shadows |-> <<0, 0, 0>>],
    success |-> "Added color balance adjustment",
    failure |-> " Failed: ",
    carries |-> TRUE ]

\* add_brightness_contrast_adjustment_layer, agent_trial.py lines 888-901
add_brightness_contrast_adjustment_layer(a) ==
  [ missing |-> IsNone(a.layer_id),
    error   |-> <<" Missing required: ", "layer_id">>,
    action  |-> "addBrightnessContrastAdjustmentLayer",
    options |-> [layerId |-> int(a.layer_id),
                 brightness |-> 0,
                 contrast |-> 0],
    success |-> "Added brightness/contrast adjustment",
    failure |-> " Failed: ",
    carries |-> TRUE ]

\* add_stroke_layer_style, agent_trial.py lines 904-920
add_stroke_layer_style(a) ==
  [ missing |-> IsNone(a.layer_id),
    error   |-> <<" Missing required: ", "layer_id">>,
    action  |-> "addStrokeLayerStyle",
    options |-> [layerId |-> int(a.layer_id),
                 size |-> 2,
                 color |-> [red |-> 0, green |-> 0, blue |-> 0],
                 opacity |-> 100,
                 position |-> "CENTER",
                 blendMode |-> "NORMAL"],
    success |-> "Added stroke",
    failure |-> " Failed: ",
    carries |-> TRUE ]

\* add_vibrance_adjustment_layer, agent_trial.py lines 923-936
add_vibrance_adjustment_layer(a) ==
  [ missing |-> IsNone(a.layer_id),
    error   |-> <<" Missing required: ", "layer_id">>,
    action  |-> "addAdjustmentLayerVibrance",
    options |-> [layerId |-> int(a.layer_id),
                 saturation |-> 0,
                 vibrance |-> 0],
    success |-> "Added vibrance adjustment",
    failure |-> " Failed: ",
    carries |-> TRUE ]

\* add_black_and_white_adjustment_layer, agent_trial.py lines 939-955
add_black_and_white_adjustment_layer(a) ==
  [ missing |-> IsNone(a.layer_id),
    error   |-> <<" Missing required: ", "layer_id">>,
    action  |-> "addAdjustmentLayerBlackAndWhite",
    options |-> [layerId |-> int(a.layer_id),
                 colors |-> [blue |-> 20, cyan |-> 60, green |-> 40, magenta |-> 80, red |-> 40, yellow |-> 60],
                 tint |-> FALSE,
                 tintColor |-> [red |-> 225, green |-> 211, blue |-> 179]],
    success |-> "Added black & white adjustment",
    failure |-> " Failed: ",
    carries |-> TRUE ]

\* get_document_image, agent_trial.py lines 958-965
get_document_image(a) ==
  [ missing |-> FALSE,
    error   |-> <<"", "">>,
    action  |-> "getDocumentImage",
    options |-> EmptyOptions,
    success |-> "Document image retrieved",
    failure |-> " Failed: ",
    carries |-> TRUE ]

\* get_layer_image, agent_trial.py lines 968-978
get_layer_image(a) ==
  [ missing |-> IsNone(a.layer_id),
    error   |-> <<" Missing required: ", "layer_id">>,
    action  |-> "getLayerImage",
    options |-> [layerId |-> int(a.layer_id)],
    success |-> "Layer image retrieved",
    failure |-> " Failed: ",
    carries |-> TRUE ]

\* the parameters each wrapper tests before it sends, with their annotated types
Signature ==
  [
    create_document |-> [document_name |-> "str", width |-> "int", height |-> "int"],
    get_documents |-> EmptyOptions,
    get_layers |-> EmptyOptions,
    create_text_layer |-> [layer_name |-> "str", text |-> "str"],
    create_pixel_layer |-> [layer_name |-> "str"],
    delete_layer |-> [layer_id |-> "int"],
    fill_selection |-> [layer_id |-> "int"],
    select_rectangle |-> [layer_id |-> "int"],
    save_document |-> [file_path |-> "str"],
    generate_image |-> [layer_name |-> "str", prompt |-> "str"],
    apply_gaussian_blur |-> [layer_id |-> "int"],
    apply_motion_blur |-> [layer_id |-> "int"],
    set_active_document |-> [document_id |-> "int"],
    create_gradient_layer_style |-> [layer_id |-> "int", color_stops |-> "list", opacity_stops |-> "list"],
    duplicate_document |-> [document_name |-> "str"],
    export_layers_as_png |-> [layers_info |-> "list"],
    group_layers |-> [group_name |-> "str", layer_ids |-> "list"],
    place_image |-> [layer_id |-> "int", image_path |-> "str"],
    harmonize_layer |-> [layer_id |-> "int", new_layer_name |-> "str"],
    rename_layers |-> [layer_data |-> "list"],
    scale_layer |-> [layer_id |-> "int", width |-> "int", height |-> "int"],
    rotate_layer |-> [layer_id |-> "int"],
    flip_layer |-> [layer_id |-> "int"],
    set_layer_visibility |-> [layer_id |-> "int"],
    generative_fill |-> [layer_name |-> "str", prompt |-> "str", layer_id |-> "int"],
    move_layer |-> [layer_id |-> "int", position |-> "str"],
    get_document_info |-> EmptyOptions,
    crop_document |-> EmptyOptions,
    paste_from_clipboard |-> [layer_id |-> "int"],
    rasterize_layer |-> [layer_id |-> "int"],
    open_photoshop_file |-> [file_path |-> "str"],
    cut_selection_to_clipboard |-> [layer_id |-> "int"],
    copy_merged_selection_to_clipboard |-> EmptyOptions,
    copy_selection_to_clipboard |-> [layer_id |-> "int"],
    select_subject |-> [layer_id |-> "int"],
    select_sky |-> [layer_id |-> "int"],
    get_layer_bounds |-> [layer_id |-> "int"],
    remove_background |-> [layer_id |-> "int"],
    create_multi_line_text_layer |-> [layer_name |-> "str", text |-> "str"],
    edit_text_layer |-> [layer_id |-> "int"],
    translate_layer |-> [layer_id |-> "int"],
    remove_layer_mask |-> [layer_id |-> "int"],
    add_layer_mask_from_selection |-> [layer_id |-> "int"],
    set_layer_properties |-> [layer_id |-> "int"],
    delete_selection |-> [layer_id |-> "int"],
    invert_selection |-> EmptyOptions,
    clear_selection |-> EmptyOptions,
    select_polygon |-> [layer_id |-> "int", points |-> "list"],
    select_ellipse |-> [layer_id |-> "int"],
    align_content |-> [layer_id |-> "int", alignment_mode |-> "str"],
    add_drop_shadow_layer_style |-> [layer_id |-> "int"],
    duplicate_layer |-> [layer_to_duplicate_id |-> "int", duplicate_layer_name |-> "str"],
    flatten_all_layers |-> [layer_name |-> "str"],
    add_color_balance_adjustment_layer |-> [layer_id |-> "int"],
    add_brightness_contrast_adjustment_layer |-> [layer_id |-> "int"],
    add_stroke_layer_style |-> [layer_id |-> "int"],
    add_vibrance_adjustment_layer |-> [layer_id |-> "int"],
    add_black_and_white_adjustment_layer |-> [layer_id |-> "int"],
    get_document_image |-> EmptyOptions,
    get_layer_image |-> [layer_id |-> "int"] ]

\* the tool registry of main(): every wrapper by name
Tool(w, a) ==
  CASE w = "create_document" -> create_document(a)
    [] w = "get_documents" -> get_documents(a)
    [] w = "get_layers" -> get_layers(a)
    [] w = "create_text_layer" -> create_text_layer(a)
    [] w = "create_pixel_layer" -> create_pixel_layer(a)
    [] w = "delete_layer" -> delete_layer(a)
    [] w = "fill_selection" -> fill_selection(a)
    [] w = "select_rectangle" -> select_rectangle(a)
    [] w = "save_document" -> save_document(a)
    [] w = "generate_image" -> generate_image(a)
    [] w = "apply_gaussian_blur" -> apply_gaussian_blur(a)
    [] w = "apply_motion_blur" -> apply_motion_blur(a)
    [] w = "set_active_document" -> set_active_document(a)
    [] w = "create_gradient_layer_style" -> create_gradient_layer_style(a)
    [] w = "duplicate_document" -> duplicate_document(a)
    [] w = "export_layers_as_png" -> export_layers_as_png(a)
    [] w = "group_layers" -> group_layers(a)
    [] w = "place_image" -> place_image(a)
    [] w = "harmonize_layer" -> harmonize_layer(a)
    [] w = "rename_layers" -> rename_layers(a)
    [] w = "scale_layer" -> scale_layer(a)
    [] w = "rotate_layer" -> rotate_layer(a)
    [] w = "flip_layer" -> flip_layer(a)
    [] w = "set_layer_visibility" -> set_layer_visibility(a)
    [] w = "generative_fill" -> generative_fill(a)
    [] w = "move_layer" -> move_layer(a)
    [] w = "get_document_info" -> get_document_info(a)
    [] w = "crop_document" -> crop_document(a)
    [] w = "paste_from_clipboard" -> paste_from_clipboard(a)
    [] w = "rasterize_layer" -> rasterize_layer(a)
    [] w = "open_photoshop_file" -> open_photoshop_file(a)
    [] w = "cut_selection_to_clipboard" -> cut_selection_to_clipboard(a)
    [] w = "copy_merged_selection_to_clipboard" -> copy_merged_selection_to_clipboard(a)
    [] w = "copy_selection_to_clipboard" -> copy_selection_to_clipboard(a)
    [] w = "select_subject" -> select_subject(a)
    [] w = "select_sky" -> select_sky(a)
    [] w = "get_layer_bounds" -> get_layer_bounds(a)
    [] w = "remove_background" -> remove_background(a)
    [] w = "create_multi_line_text_layer" -> create_multi_line_text_layer(a)
    [] w = "edit_text_layer" -> edit_text_layer(a)
    [] w = "translate_layer" -> translate_layer(a)
    [] w = "remove_layer_mask" -> remove_layer_mask(a)
    [] w = "add_layer_mask_from_selection" -> add_layer_mask_from_selection(a)
    [] w = "set_layer_properties" -> set_layer_properties(a)
    [] w = "delete_selection" -> delete_selection(a)
    [] w = "invert_selection" -> invert_selection(a)
    [] w = "clear_selection" -> clear_selection(a)
    [] w = "select_polygon" -> select_polygon(a)
    [] w = "select_ellipse" -> select_ellipse(a)
    [] w = "align_content" -> align_content(a)
    [] w = "add_drop_shadow_layer_style" -> add_drop_shadow_layer_style(a)
    [] w = "duplicate_layer" -> duplicate_layer(a)
    [] w = "flatten_all_layers" -> flatten_all_layers(a)
    [] w = "add_color_balance_adjustment_layer" -> add_color_balance_adjustment_layer(a)
    [] w = "add_brightness_contrast_adjustment_layer" -> add_brightness_contrast_adjustment_layer(a)
    [] w = "add_stroke_layer_style" -> add_stroke_layer_style(a)
    [] w = "add_vibrance_adjustment_layer" -> add_vibrance_adjustment_layer(a)
    [] w = "add_black_and_white_adjustment_layer" -> add_black_and_white_adjustment_layer(a)
    [] w = "get_document_image" -> get_document_image(a)
    [] w = "get_layer_image" -> get_layer_image(a)

\* the keyword arguments a call of wrapper w may be given: each tested
\* parameter is None, a falsy value or a truthy value of its type
ArgValues(type) ==
  CASE type = "int"  -> {None} \cup {PyInt(n) : n \in 0..MaxId}
    [] type = "str"  -> {None, PyStr(""), PyStr("s")}
    [] type = "list" -> {None, PyList(<<>>), PyList(<<1>>)}

AllArgValues == ArgValues("int") \cup ArgValues("str") \cup ArgValues("list")

ArgsOf(w) ==
  { a \in [DOMAIN Signature[w] -> AllArgValues] :
      \A p \in DOMAIN Signature[w] : a[p] \in ArgValues(Signature[w][p]) }

Wrappers == DOMAIN Signature

\* ------------------------------------------------------------- the replies
\* A reply is the mapping carried by a packet_response event. Its keys are a
\* subset of status, message and one payload key.
ReplyKeys == {"status", "message", "payload"}

ReplyRange(k) ==
  CASE k = "status"  -> {"SUCCESS", "ERROR", "PENDING"}
    [] k = "message" -> {"layer not found"}
    [] k = "payload" -> {"data"}

Replies ==
  { r \in UNION { [K -> UNION {ReplyRange(k) : k \in ReplyKeys}] : K \in SUBSET ReplyKeys } :
      \A k \in DOMAIN r : r[k] \in ReplyRange(k) }

\* ------------------------------------------- modules, imports, registries
\* the tools agent.py declares in its `tools` list (the ServerTool names)
AgentTools ==
  {
    "create_document", "get_documents", "get_layers", "create_text_layer",
    "create_pixel_layer", "delete_layer", "select_rectangle", "fill_selection",
    "save_document", "generate_image", "apply_gaussian_blur" }

\* the names agent.py defines at module level besides its tool functions
AgentOtherNames ==
  {
    "socketio", "json", "os", "sys", "threading", "Queue", "load_dotenv",
    "OpenAiConfig", "Agent", "ServerTool", "IntegerProperty", "StringProperty",
    "ObjectProperty", "BooleanProperty", "AgentSpecLoader", "PROXY_URL",
    "PROXY_TIMEOUT", "send_photoshop_command", "tools", "llm_config", "agent_spec",
    "main" }

\* the names agent_trial.py defines at module level besides its tool functions
AgentTrialOtherNames ==
  {
    "socketio", "json", "os", "sys", "threading", "Queue", "load_dotenv",
    "OpenAiConfig", "Agent", "ServerTool", "IntegerProperty", "StringProperty",
    "ObjectProperty", "BooleanProperty", "AgentSpecLoader", "PROXY_URL",
    "PROXY_TIMEOUT", "send_photoshop_command", "tools", "llm_config", "agent_spec",
    "main" }

\* the keys of the tool_registry that run_agent builds; each key is bound to
\* the imported function of the same name
RunnerRegistry ==
  {
    "create_document", "get_documents", "get_document_info", "set_active_document",
    "duplicate_document", "save_document", "open_photoshop_file", "crop_document",
    "get_layers", "create_text_layer", "create_multi_line_text_layer",
    "edit_text_layer", "create_pixel_layer", "delete_layer", "duplicate_layer",
    "rename_layers", "group_layers", "flatten_all_layers", "set_layer_visibility",
    "set_layer_properties", "get_layer_bounds", "select_rectangle", "select_ellipse",
    "select_polygon", "select_subject", "select_sky", "invert_selection",
    "clear_selection", "copy_selection_to_clipboard", "cut_selection_to_clipboard",
    "copy_merged_selection_to_clipboard", "paste_from_clipboard", "delete_selection",
    "fill_selection", "align_content", "place_image", "scale_layer", "rotate_layer",
    "flip_layer", "translate_layer", "move_layer", "rasterize_layer",
    "remove_background", "harmonize_layer", "generate_image", "generative_fill",
    "apply_gaussian_blur", "apply_motion_blur", "add_drop_shadow_layer_style",
    "add_stroke_layer_style", "add_color_balance_adjustment_layer",
    "add_brightness_contrast_adjustment_layer", "add_vibrance_adjustment_layer",
    "add_black_and_white_adjustment_layer", "create_gradient_layer_style",
    "add_layer_mask_from_selection", "remove_layer_mask", "export_layers_as_png",
    "get_document_image", "get_layer_image" }

\* from agent import (...): the names runner.py imports from the module agent
RunnerImports == RunnerRegistry \cup
  {
    "send_photoshop_command", "agent_spec", "tools" }

\* the candidates for the module that `from agent import` finds on sys.path:
\* agent.py of the directory, or agent_trial.py installed under that name
AgentModules == {"agent", "agent_trial"}

\* the names a module defines: each tool function it declares, and the rest
Defines(m) ==
  IF m = "agent" THEN AgentTools \cup AgentOtherNames
                 ELSE Wrappers \cup AgentTrialOtherNames

\* the tool names of the agent_spec a module builds from its tools list
DeclaredTools(m) == IF m = "agent" THEN AgentTools ELSE Wrappers

\* from agent import (...) raises ImportError unless every name is defined;
\* runner then fails to load, and server.py sets AGENT_AVAILABLE = False
ImportSucceeds(m) == RunnerImports \subseteq Defines(m)

\* ----------------------------------------------------------- server.py data
\* the object names a request may carry, and contents as byte strings
ObjectNames == {"a.jpg", "b.jpg"}
Contents == { <<>>, <<77>>, <<255, 216, 255>> }

\* a bucket maps the names of the objects it holds to their content
EmptyBucket == <<>>
Buckets == UNION { [present -> Contents] : present \in SUBSET ObjectNames }

\* base64 alphabet, as character codes: A-Z a-z 0-9 + /
b64chars ==
  [ i \in 1..64 |-> IF i <= 26 THEN 64 + i
                    ELSE IF i <= 52 THEN 70 + i
                    ELSE IF i <= 62 THEN i - 5
                    ELSE IF i = 63 THEN 43 ELSE 47 ]

\* the data as it would be sent without the base64 encoding
unencoded(data) == data

\* base64.b64encode(data).decode('utf-8'), as the character codes of the text:
\* three bytes become four characters, a short last group is padded with '='
RECURSIVE b64encode(_)
b64encode(data) ==
  IF data = <<>> THEN <<>>
  ELSE LET n  == Len(data)
           b2 == IF n >= 2 THEN data[2] ELSE 0
           b3 == IF n >= 3 THEN data[3] ELSE 0
           v  == data[1] * 65536 + b2 * 256 + b3
       IN  << b64chars[(v \div 262144) + 1],
              b64chars[((v \div 4096) % 64) + 1],
              IF n >= 2 THEN b64chars[((v \div 64) % 64) + 1] ELSE 61,
              IF n >= 3 THEN b64chars[(v % 64) + 1] ELSE 61 >>
           \o (IF n > 3 THEN b64encode(SubSeq(data, 4, n)) ELSE <<>>)

\* How a call of the object storage client ends, as the service decides:
\* it returns, it raises oci.exceptions.ServiceError with an HTTP status, or
\* it raises another exception (no network, a rejected parameter).
ServiceStatuses == {404, 500, 503}
Returns == [kind |-> "returns"]
ServiceError(status) == [kind |-> "ServiceError", status |-> status]
OtherException == [kind |-> "Exception"]
StorageFaults == {Returns, OtherException} \cup { ServiceError(st) : st \in ServiceStatuses }

\* get_object, head_object and delete_object of a name the bucket does not
\* hold are answered with ServiceError 404 by the service
on_object(objects, object_name, fault) ==
  IF fault = Returns /\ object_name \notin DOMAIN objects THEN ServiceError(404) ELSE fault

\* put_object rejects an empty object name before anything is sent
on_put(object_name, fault) ==
  IF object_name = "" THEN OtherException ELSE fault

\* the bucket after put_object(object_name, body) returned
put_object(objects, object_name, body) ==
  [ n \in DOMAIN objects \cup {object_name} |->
      IF n = object_name THEN body ELSE objects[n] ]

\* the bucket after delete_object(object_name) returned
delete_object(objects, object_name) ==
  [ n \in DOMAIN objects \ {object_name} |-> objects[n] ]

\* jsonify(body), status
Response(status, body) == [status |-> status, body |-> body]
NoResponse == Response(0, <<>>)

\* ------------------------------------------------------------- HTTP requests
NoRequest == [endpoint |-> "none"]

\* POST /upload: request.files and request.form
UploadFiles ==
  { <<>> } \cup
  { [file |-> [filename |-> f, stream |-> c]] : f \in {"", "a.jpg"}, c \in {<<77>>, <<255, 216, 255>>} }
UploadForms ==
  { <<>>, [prompt |-> "blur it"] } \cup
  { [object_name |-> n] : n \in {"b.jpg", ""} }
UploadRequests ==
  { [endpoint |-> "upload", files |-> fs, form |-> fm] : fs \in UploadFiles, fm \in UploadForms }

\* GET /download/<name>, DELETE /delete/<name>, GET /metadata/<name>
ObjectRequests ==
  { [endpoint |-> e, object_name |-> n] : e \in {"download", "delete", "metadata"}, n \in ObjectNames }

\* GET /list?prefix=...
ListRequests == { [endpoint |-> "list", prefix |-> p] : p \in {"", "a"} }

\* name.startswith(prefix), for the prefixes of ListRequests
StartsWith(name, prefix) == prefix = "" \/ (prefix = "a" /\ name = "a.jpg")

\* POST /process: what request.get_json() makes of the body. A body that is
\* not JSON makes it raise (an HTTPException) or return None, by the version
\* of the framework; otherwise it returns the parsed value.
ProcessBodies ==
  { [kind |-> "raises"], [kind |-> "returns", data |-> None],
    [kind |-> "returns", data |-> PyDict(<<>>)],
    [kind |-> "returns", data |-> PyList(<<1>>)] } \cup
  { [kind |-> "returns", data |-> PyDict(d)] :
      d \in { [object_name |-> "a.jpg", prompt |-> "blur it"],
              [object_name |-> "b.jpg", prompt |-> "blur it"],
              [object_name |-> "a.jpg", prompt |-> ""],
              [object_name |-> "a.jpg"],
              [prompt |-> "blur it"] } }
ProcessRequests == { [endpoint |-> "process", json |-> b] : b \in ProcessBodies }

\* what the requests handled so far are known to have left under each name:
\* nothing known, the content of the last successful upload, or deleted
NothingStored == [n \in ObjectNames |-> [kind |-> "unknown"]]
Uploaded(content) == [kind |-> "uploaded", content |-> content]
Deleted == [kind |-> "deleted"]

\* what a handler has done for the request in progress
NoServed ==
  [ before   |-> EmptyBucket, \* the bucket when the request arrived
    puts     |-> <<>>,        \* the names put_object was called with
    gets     |-> 0,           \* storage calls other than put_object
    fault    |-> Returns,     \* how the last storage call ended
    tmp      |-> 0,           \* temporary files that exist
    made     |-> 0,           \* temporary files created
    runs     |-> 0,           \* calls of run_agent
    ran      |-> None,        \* what run_agent returned
    raised   |-> "" ]         \* the exception run_agent raised

\* ------------------------------------------------------ run_agent's results
\* the dict run_agent returns on a failure; message is a text and its detail
ErrorResult(text, detail) ==
  PyDict([status |-> "error", message |-> <<text, detail>>, result |-> None])

\* what escapes run_agent when its own except branch fails
RunAgentRaises == {"UnicodeEncodeError"}

\* the dict run_agent returns after conversation.execute() completed
SuccessResult(agent_response) ==
  PyDict([status |-> "success", message |-> <<"Image processed successfully", "">>,
          result |-> agent_response])

\* the exceptions send_photoshop_command ends with
SenderExceptions == {"ConnectionError", "TimeoutError", "Empty"}
\* the exceptions the agent runtime raises, and the replies of the agent
RuntimeExceptions == {"ValueError", "RuntimeError"}
AgentResponses == {PyStr("Done."), PyStr("")}

\* every dict run_agent can return
RunAgentReturns ==
  { ErrorResult("Failed to connect to Photoshop. Ensure proxy and plugin are running.", "") }
  \cup { ErrorResult("Connection error: ", e) : e \in SenderExceptions }
  \cup { ErrorResult("Agent execution error: ", e) : e \in RuntimeExceptions }
  \cup { SuccessResult(m) : m \in AgentResponses }

\* ---------------------------------------------------------------- main() data
\* A line typed by the user is the sequence of its character codes.
\* the whitespace a typed line may hold: tab and space
Whitespace == {9, 32}

\* text.strip(): the text without its leading and trailing whitespace
strip(text) ==
  LET kept == { i \in 1..Len(text) : text[i] \notin Whitespace } IN
    IF kept = {} THEN <<>>
    ELSE SubSeq(text, CHOOSE i \in kept : \A j \in kept : i <= j,
                      CHOOSE i \in kept : \A j \in kept : i >= j)

\* text.lower()
lower(text) ==
  [ i \in 1..Len(text) |-> IF text[i] \in 65..90 THEN text[i] + 32 ELSE text[i] ]

\* ['quit', 'exit', 'q']
QuitWords == { <<113, 117, 105, 116>>, <<101, 120, 105, 116>>, <<113>> }

\* what the user may type: nothing, a blank, q, "Q ", QUIT, " exit", Exit,
\* and two messages for the agent, qq and hi
Inputs ==
  { <<>>, <<32>>, <<113>>, <<81, 32>>, <<81, 85, 73, 84>>, <<32, 101, 120, 105, 116>>,
    <<69, 120, 105, 116>>, <<113, 113>>, <<104, 105>> }

\* what input() raises instead of returning a line
InputExceptions == {"KeyboardInterrupt", "EOFError"}

\* what conversation.execute() raises: the failure of a tool call's
\* transport, an error of the agent runtime, or the user's interrupt
ExecuteExceptions == SenderExceptions \cup RuntimeExceptions \cup {"KeyboardInterrupt"}

\* the replies of the proxy to the probe of main()
MainReplies == { [status |-> "SUCCESS"], [status |-> "ERROR", message |-> "layer not found"] }

NoMain ==
  [ pc         |-> "idle",
    reads      |-> 0,        \* calls of input()
    user_input |-> <<>>,     \* the line read last, stripped
    sent       |-> <<>>,     \* the messages appended to the conversation
    executed   |-> 0,        \* calls of conversation.execute() that returned
    last       |-> "none",   \* how the last pass of the loop went
    ended      |-> "none" ]  \* why main() ended

\* --------------------------------------------------- _start_mcp_server data
\* the start methods in the order of the try blocks: mcp_obj.run(),
\* mcp_obj.run_stdio(), mcp_obj.server.run(), asyncio.run(run_server()),
\* mcp_obj.run(transport="stdio")
StartMethods == <<"run", "run_stdio", "server.run", "run_server", "run_transport">>

\* what hasattr finds on mcp_obj: server.run needs server
Shapes ==
  { has \in SUBSET {"run", "run_stdio", "server", "server.run"} :
      "server.run" \in has => "server" \in has }

\* how the call of a start method ends: it serves until the server is done
\* and returns; it raises an Exception before serving or after it served for
\* a while (for run(transport="stdio") also the TypeError of a run() that
\* takes no transport); the user interrupts it (KeyboardInterrupt, not an
\* Exception)
StartOutcomes == {"completes", "raises", "serves_then_raises", "interrupted"}

NoStart ==
  [ pc        |-> "idle",
    has       |-> {},
    invoked   |-> <<>>,     \* the methods called, in order
    completed |-> <<>>,     \* the methods that returned
    starts    |-> 0,        \* how many times a server began to serve
    code      |-> 0 ]       \* the exit code, once sys.exit was called

\* ------------------------------------------------------------ ps-mcp.py data
\* A data URL is the text head + payload, where head is the text up to and
\* including the first comma ("" when there is none) and payload the
\* character codes after it.
DataUrl(head, payload) == [head |-> head, payload |-> payload]

JPEG_PREFIX == "data:image/jpeg;base64,"

\* data_url.startswith(prefix), for a prefix that ends with its only comma
startswith(data_url, prefix) == data_url.head = prefix

\* data_url.split(",", 1)[1]
after_comma(data_url) == data_url.payload

\* the value of a base64 character
b64value(ch) == (CHOOSE i \in 1..64 : b64chars[i] = ch) - 1

\* base64.b64decode(text) of a padded text: four characters become three
\* bytes, less one for each '=' that ends the group
RECURSIVE b64decode(_)
b64decode(text) ==
  IF Len(text) < 4 THEN <<>>
  ELSE LET val(i) == IF text[i] = 61 THEN 0 ELSE b64value(text[i])
           pad    == Cardinality({ i \in 3..4 : text[i] = 61 })
           v      == val(1) * 262144 + val(2) * 4096 + val(3) * 64 + val(4)
           bytes  == << v \div 65536, (v \div 256) % 256, v % 256 >>
       IN  SubSeq(bytes, 1, 3 - pad) \o b64decode(SubSeq(text, 5, Len(text)))

\* the dataUrl values the plugin may send: an empty text, and the data URL of
\* an image of either format
DataUrls ==
  { DataUrl("", <<>>) } \cup
  { DataUrl(h, b64encode(c)) : h \in {JPEG_PREFIX, "data:image/png;base64,"}, c \in Contents }

\* the 'response' field of a reply: a mapping with or without dataUrl
ImageData == { <<>> } \cup { [dataUrl |-> u] : u \in DataUrls }

\* the replies sendCommand may return to an image tool
McpStatuses == {"SUCCESS", "FAILURE"}
McpReplies ==
  { <<>> } \cup { [status |-> st] : st \in McpStatuses }
  \cup { [response |-> d] : d \in ImageData }
  \cup { [status |-> st, response |-> d] : st \in McpStatuses, d \in ImageData }

\* createCommand(action, options) of core: the command envelope
createCommand(action, options) ==
  [application |-> "photoshop", action |-> action, options |-> options]

\* Image(data=jpeg_bytes, format="jpeg"), and a reply returned as it is
Image(data, format) == [kind |-> "Image", data |-> data, format |-> format]
Reply(response) == [kind |-> "reply", value |-> response]

NoToolCall == [pc |-> "idle"]

\* ------------------------------------------------------------------- state
VARIABLES
  call,       \* call[c]: the wrapper running call c and its arguments
  cpc,        \* where the calling thread is
  tpc,        \* where the background thread run() is
  hpc,        \* the event handler the client is in the middle of
  sio,        \* the client's connection
  queue,      \* response_queue
  error,      \* error[0]
  response,   \* the value response_queue.get returned
  outcome,    \* how send_photoshop_command ended
  result,     \* what the wrapper gave its caller
  emitted,    \* the command_packets emitted on the connection, in order
  reconnects, \* connections re-established after a drop
  hist,       \* what has happened on the call's connection (observation only)
  agent_module,    \* the module that `from agent import` of runner.py finds
  AGENT_AVAILABLE, \* server.py: whether `from runner import run_agent` succeeded
  bucket,     \* the objects of the bucket: name -> content
  request,    \* the HTTP request being handled
  spc,        \* where the request handler is
  http,       \* the HTTP response the handler produced
  served,     \* what the handler did for the request (observation only)
  stored,     \* what the requests so far left under each name (observation only)
  rpc,        \* runner.py: where run_agent is
  returned,   \* what run_agent returned
  convo,      \* the calls run_agent made on the agent runtime, in order
  mcp,        \* ps-mcp.py: the tool call in progress, its reply and its result
  main,       \* main(): where it is, what it read and what it sent to the agent
  starter     \* ps-mcp.py: _start_mcp_server, the methods it invoked and how it ended

senderVars == <<call, cpc, tpc, hpc, sio, queue, error, response, outcome, result,
                emitted, reconnects, hist>>

serverVars == <<agent_module, AGENT_AVAILABLE, bucket, request, spc, http, served, stored>>

runnerVars == <<rpc, returned, convo>>

mcpVars == <<mcp>>

mainVars == <<main>>

starterVars == <<starter>>

\* what the steps of the command sender, of server.py and of run_agent
\* leave alone
appVars == <<serverVars, runnerVars, mcpVars, mainVars, starterVars>>
exceptServer == <<senderVars, runnerVars, mcpVars, mainVars, starterVars>>
exceptRunner == <<serverVars, mcpVars, mainVars, starterVars>>
exceptMain == <<serverVars, runnerVars, mcpVars, starterVars>>
exceptStarter == <<senderVars, serverVars, runnerVars, mcpVars, mainVars>>

vars == <<senderVars, serverVars, runnerVars, mcpVars, mainVars, starterVars>>

NoCall == [tool |-> "", args |-> EmptyOptions]
NoResult == [kind |-> "none", text |-> "", detail |-> ""]
Returned(text, detail) == [kind |-> "returned", text |-> text, detail |-> detail]
Raised(exc) == [kind |-> "raised", text |-> exc, detail |-> ""]

NoHist ==
  [ events     |-> {},      \* the events delivered so far
    first      |-> "none",  \* the first event after the command was emitted
    firstReply |-> None,    \* its data, when it was a packet_response
    delivered  |-> {},      \* the data of every packet_response
    quiet      |-> FALSE,   \* the wait expired and no event had been delivered
    failedAtGet |-> FALSE,  \* connecting had failed when get() returned
    endEmitted |-> 0,       \* command_packets emitted when the call ended
    endSio     |-> "none" ] \* the connection when the call ended

\* server.py with no request being handled
ServerIdle(m, objects) ==
  /\ agent_module = m
  /\ AGENT_AVAILABLE = ImportSucceeds(m)
  /\ bucket = objects
  /\ request = NoRequest
  /\ spc = "idle"
  /\ http = NoResponse
  /\ served = NoServed
  /\ stored = NothingStored

\* runner.py with run_agent not called
RunnerIdle ==
  /\ rpc = "idle"
  /\ returned = None
  /\ convo = <<>>

\* ps-mcp.py with no tool called
McpIdle == mcp = NoToolCall

\* main() not called, _start_mcp_server not called
MainIdle == main = NoMain
StarterIdle == starter = NoStart

\* a process that calls the wrappers by itself: no HTTP server is part of it
Init ==
  /\ call = [c \in Calls |-> NoCall]
  /\ cpc = [c \in Calls |-> "idle"]
  /\ tpc = [c \in Calls |-> "unstarted"]
  /\ hpc = [c \in Calls |-> "none"]
  /\ sio = [c \in Calls |-> "disconnected"]
  /\ queue = [c \in Calls |-> <<>>]
  /\ error = [c \in Calls |-> None]
  /\ response = [c \in Calls |-> None]
  /\ outcome = [c \in Calls |-> "none"]
  /\ result = [c \in Calls |-> NoResult]
  /\ emitted = [c \in Calls |-> <<>>]
  /\ reconnects = [c \in Calls |-> 0]
  /\ hist = [c \in Calls |-> NoHist]
  /\ ServerIdle("agent", EmptyBucket)
  /\ RunnerIdle
  /\ McpIdle
  /\ MainIdle
  /\ StarterIdle

\* ------------------------------------------------ send_photoshop_command
\* the queue as it would be if response_queue were one module-level object
SharedQueue(c) == 1

\* response_queue and error are locals of the call: call c uses its own.
QueueOf(c) == c
\* the error cell as it would be if error were one module-level list
SharedError(c) == 1
ErrorOf(c) == c

\* the packet sio.emit sends in connect()
CommandPacket(action, options) ==
  [ type        |-> "command",
    application |-> "photoshop",
    command     |-> [application |-> "photoshop", action |-> action, options |-> options] ]

\* the event is noted in the history of the connection it arrived on
Note(h, ev, data) ==
  [ h EXCEPT !.events = @ \cup {ev},
             !.first = IF @ = "none" THEN ev ELSE @,
             !.firstReply = IF h.first = "none" /\ ev = "packet_response" THEN data ELSE @,
             !.delivered = IF ev = "packet_response" THEN @ \cup {data} ELSE @ ]

\* def connect(): emit the command
connect(c) ==
  LET t == Tool(call[c].tool, call[c].args)
  IN emitted' = [emitted EXCEPT ![c] = Append(@, CommandPacket(t.action, t.options))]

\* the disconnect handler as it would be if it put nothing on the queue
disconnect_silent(q) == q

\* def disconnect(): if response_queue.empty(): response_queue.put(None)
disconnect(q) == IF q = <<>> THEN <<None>> ELSE q

\* def packet_response(data), first statement: response_queue.put(data)
packet_response(c, data) ==
  /\ sio[c] = "connected"
  /\ hpc[c] = "none"
  /\ queue' = [queue EXCEPT ![QueueOf(c)] = Append(@, PyDict(data))]
  /\ hpc' = [hpc EXCEPT ![c] = "packet_response"]
  /\ hist' = [hist EXCEPT ![c] = Note(@, "packet_response", PyDict(data))]
  /\ UNCHANGED <<call, cpc, tpc, sio, error, response, outcome, result, emitted, reconnects>>

\* def packet_response(data), second statement: sio.disconnect(), which fires
\* the disconnect event when the client was still connected
packet_response_disconnect(c) ==
  /\ hpc[c] = "packet_response"
  /\ hpc' = [hpc EXCEPT ![c] = "none"]
  /\ IF sio[c] = "connected"
       THEN /\ sio' = [sio EXCEPT ![c] = "closed"]
            /\ queue' = [queue EXCEPT ![QueueOf(c)] = disconnect(@)]
       ELSE UNCHANGED <<sio, queue>>
  /\ UNCHANGED <<call, cpc, tpc, error, response, outcome, result, emitted, reconnects, hist>>

\* the connection is lost (proxy gone, transport closed): the disconnect event
\* fires; the client was created with its default reconnection=True and will
\* try to connect again
connection_lost(c) ==
  /\ sio[c] = "connected"
  /\ hpc[c] = "none"
  /\ sio' = [sio EXCEPT ![c] = "lost"]
  /\ queue' = [queue EXCEPT ![QueueOf(c)] = disconnect(@)]
  /\ hist' = [hist EXCEPT ![c] = Note(@, "disconnect", None)]
  /\ UNCHANGED <<call, cpc, tpc, hpc, error, response, outcome, result, emitted, reconnects>>

\* the client re-establishes the lost connection: the connect event fires again
reconnect(c) ==
  /\ sio[c] = "lost"
  /\ tpc[c] = "wait"
  /\ hpc[c] = "none"
  /\ reconnects[c] < MaxReconnects
  /\ reconnects' = [reconnects EXCEPT ![c] = @ + 1]
  /\ sio' = [sio EXCEPT ![c] = "connected"]
  /\ connect(c)
  /\ UNCHANGED <<call, cpc, tpc, hpc, queue, error, response, outcome, result, hist>>

\* connect_error as it would be without its first statement
connect_error_unrecorded(c) ==
  /\ tpc[c] = "connect"
  /\ hpc[c] = "none"
  /\ hpc' = [hpc EXCEPT ![c] = "connect_error"]
  /\ tpc' = [tpc EXCEPT ![c] = "connect_failed"]
  /\ hist' = [hist EXCEPT ![c] = Note(@, "connect_error", None)]
  /\ UNCHANGED <<call, cpc, sio, queue, error, response, outcome, result, emitted, reconnects>>

\* def connect_error(e), first statement: error[0] = e
connect_error(c) ==
  /\ tpc[c] = "connect"
  /\ hpc[c] = "none"
  /\ error' = [error EXCEPT ![ErrorOf(c)] = PyStr("Connection error")]
  /\ hpc' = [hpc EXCEPT ![c] = "connect_error"]
  /\ tpc' = [tpc EXCEPT ![c] = "connect_failed"]
  /\ hist' = [hist EXCEPT ![c] = Note(@, "connect_error", None)]
  /\ UNCHANGED <<call, cpc, sio, queue, response, outcome, result, emitted, reconnects>>

\* def connect_error(e), second statement: response_queue.put(None)
connect_error_put(c) ==
  /\ hpc[c] = "connect_error"
  /\ hpc' = [hpc EXCEPT ![c] = "none"]
  /\ queue' = [queue EXCEPT ![QueueOf(c)] = Append(@, None)]
  /\ UNCHANGED <<call, cpc, tpc, sio, error, response, outcome, result, emitted, reconnects, hist>>

\* run(): sio.connect(PROXY_URL, transports=['websocket']) succeeds; the
\* connect event fires; run() goes on to sio.wait()
run_connect(c) ==
  /\ tpc[c] = "connect"
  /\ sio' = [sio EXCEPT ![c] = "connected"]
  /\ connect(c)
  /\ tpc' = [tpc EXCEPT ![c] = "wait"]
  /\ UNCHANGED <<call, cpc, hpc, queue, error, response, outcome, result, reconnects, hist>>

\* run(): sio.connect raises, after the connect_error event or without one
run_connect_raises(c) ==
  /\ tpc[c] \in {"connect", "connect_failed"}
  /\ tpc' = [tpc EXCEPT ![c] = "except"]
  /\ hist' = [hist EXCEPT ![c] = Note(@, "connect_raised", None)]
  /\ UNCHANGED <<call, cpc, hpc, sio, queue, error, response, outcome, result, emitted, reconnects>>

\* run(): sio.wait() raises while the client is not closed and no handler runs
run_wait_raises(c) ==
  /\ tpc[c] = "wait"
  /\ sio[c] \in {"connected", "lost"}
  /\ hpc[c] = "none"
  /\ tpc' = [tpc EXCEPT ![c] = "except"]
  /\ hist' = [hist EXCEPT ![c] = Note(@, "wait_raised", None)]
  /\ UNCHANGED <<call, cpc, hpc, sio, queue, error, response, outcome, result, emitted, reconnects>>

\* run(): sio.wait() returns once the client has been disconnected by a call
\* of sio.disconnect()
run_wait_returns(c) ==
  /\ tpc[c] = "wait"
  /\ sio[c] = "closed"
  /\ tpc' = [tpc EXCEPT ![c] = "finished"]
  /\ UNCHANGED <<call, cpc, hpc, sio, queue, error, response, outcome, result, emitted, reconnects, hist>>

\* run(), except Exception as e: error[0] = e
run_except(c) ==
  /\ tpc[c] = "except"
  /\ error' = [error EXCEPT ![ErrorOf(c)] = PyErr("Exception")]
  /\ tpc' = [tpc EXCEPT ![c] = "except_put"]
  /\ UNCHANGED <<call, cpc, hpc, sio, queue, response, outcome, result, emitted, reconnects, hist>>

\* run(), except: if response_queue.empty(): response_queue.put(None)
run_except_put(c) ==
  /\ tpc[c] = "except_put"
  /\ queue' = [queue EXCEPT ![QueueOf(c)] = IF @ = <<>> THEN <<None>> ELSE @]
  /\ tpc' = [tpc EXCEPT ![c] = "finished"]
  /\ UNCHANGED <<call, cpc, hpc, sio, error, response, outcome, result, emitted, reconnects, hist>>

\* what a wrapper returns once send_photoshop_command has returned response:
\*   if response and response.get("status") == "SUCCESS": return <success>
\*   return f" Failed: {response.get('message', 'Unknown error') if response else 'No response'}"
\* get_documents and get_layers return successEmpty for an empty list
WrapperResult(t, resp) ==
  IF ~Falsy(resp) /\ Get(resp, "status", "") = "SUCCESS"
    THEN IF "successEmpty" \in DOMAIN t /\ "payload" \notin DOMAIN resp.dict
           THEN Returned(t.successEmpty, "")
           ELSE Returned(t.success, "")
    ELSE IF t.carries
           THEN Returned(t.failure,
                         IF ~Falsy(resp) THEN Get(resp, "message", "Unknown error")
                                          ELSE "No response")
           ELSE Returned(t.failure, "")

\* a wrapper finds a tested argument missing and returns its error string;
\* send_photoshop_command is not called
wrapper_missing(c, w, a) ==
  /\ cpc[c] = "idle"
  /\ Tool(w, a).missing
  /\ call' = [call EXCEPT ![c] = [tool |-> w, args |-> a]]
  /\ result' = [result EXCEPT ![c] = Returned(Tool(w, a).error[1], Tool(w, a).error[2])]
  /\ cpc' = [cpc EXCEPT ![c] = "done"]
  /\ UNCHANGED <<tpc, hpc, sio, queue, error, response, outcome, emitted, reconnects, hist>>

\* a wrapper calls send_photoshop_command(action, options), which creates the
\* client, the queue and the error cell, starts the thread and waits in
\* response_queue.get(timeout=timeout)
send_photoshop_command(c, w, a) ==
  /\ cpc[c] = "idle"
  /\ ~Tool(w, a).missing
  /\ call' = [call EXCEPT ![c] = [tool |-> w, args |-> a]]
  /\ tpc' = [tpc EXCEPT ![c] = "connect"]
  /\ cpc' = [cpc EXCEPT ![c] = "get"]
  /\ UNCHANGED <<hpc, sio, queue, error, response, outcome, result, emitted, reconnects, hist>>

\* response = response_queue.get(timeout=timeout) returns the head of the queue
get(c) ==
  /\ cpc[c] = "get"
  /\ queue[QueueOf(c)] # <<>>
  /\ response' = [response EXCEPT ![c] = Head(queue[QueueOf(c)])]
  /\ queue' = [queue EXCEPT ![QueueOf(c)] = Tail(@)]
  /\ cpc' = [cpc EXCEPT ![c] = "check"]
  /\ hist' = [hist EXCEPT ![c].failedAtGet =
                 hist[c].events \cap {"connect_error", "connect_raised"} # {}]
  /\ UNCHANGED <<call, tpc, hpc, sio, error, outcome, result, emitted, reconnects>>

\* response_queue.get(timeout=timeout) finds the queue empty for timeout
\* seconds and raises queue.Empty, which no except clause of the call catches
get_expires(c) ==
  /\ cpc[c] = "get"
  /\ queue[QueueOf(c)] = <<>>
  /\ outcome' = [outcome EXCEPT ![c] = "Empty"]
  /\ cpc' = [cpc EXCEPT ![c] = "finally"]
  /\ hist' = [hist EXCEPT ![c].quiet = (hist[c].events = {})]
  /\ UNCHANGED <<call, tpc, hpc, sio, queue, error, response, result, emitted, reconnects>>

\* check as it would be if the sender itself rejected a reply whose status is
\* not SUCCESS
check_status(c) ==
  /\ cpc[c] = "check"
  /\ outcome' = [outcome EXCEPT ![c] =
                   IF ~Falsy(error[ErrorOf(c)]) THEN "ConnectionError"
                   ELSE IF IsNone(response[c]) THEN "TimeoutError"
                   ELSE IF Get(response[c], "status", "") # "SUCCESS" THEN "ConnectionError"
                   ELSE "return"]
  /\ cpc' = [cpc EXCEPT ![c] = "finally"]
  /\ UNCHANGED <<call, tpc, hpc, sio, queue, error, response, result, emitted, reconnects, hist>>

\* if error[0]: raise ConnectionError; if response is None: raise TimeoutError;
\* return response
check(c) ==
  /\ cpc[c] = "check"
  /\ outcome' = [outcome EXCEPT ![c] =
                   IF ~Falsy(error[ErrorOf(c)]) THEN "ConnectionError"
                   ELSE IF IsNone(response[c]) THEN "TimeoutError"
                   ELSE "return"]
  /\ cpc' = [cpc EXCEPT ![c] = "finally"]
  /\ UNCHANGED <<call, tpc, hpc, sio, queue, error, response, result, emitted, reconnects, hist>>

\* finally: if sio.connected: sio.disconnect()
finally_disconnect(c) ==
  /\ cpc[c] = "finally"
  /\ IF sio[c] = "connected"
       THEN /\ sio' = [sio EXCEPT ![c] = "closed"]
            /\ queue' = [queue EXCEPT ![QueueOf(c)] = disconnect(@)]
       ELSE UNCHANGED <<sio, queue>>
  /\ cpc' = [cpc EXCEPT ![c] = "join"]
  /\ UNCHANGED <<call, tpc, hpc, error, response, outcome, result, emitted, reconnects, hist>>

\* join as it would be with thread.join() and no timeout: it returns only once
\* run() has finished
join_without_timeout(c) ==
  /\ cpc[c] = "join"
  /\ tpc[c] = "finished"
  /\ cpc' = [cpc EXCEPT ![c] = "done"]
  /\ result' = [result EXCEPT ![c] =
                  IF outcome[c] = "return"
                    THEN WrapperResult(Tool(call[c].tool, call[c].args), response[c])
                    ELSE Raised(outcome[c])]
  /\ hist' = [hist EXCEPT ![c].endEmitted = Len(emitted[c]), ![c].endSio = sio[c]]
  /\ UNCHANGED <<call, tpc, hpc, sio, queue, error, response, outcome, emitted, reconnects>>

\* finally: thread.join(timeout=1) gives up after one second whether or not
\* run() has finished; the call ends and the wrapper forms its result, or the
\* exception passes through the wrapper
join(c) ==
  /\ cpc[c] = "join"
  /\ cpc' = [cpc EXCEPT ![c] = "done"]
  /\ result' = [result EXCEPT ![c] =
                  IF outcome[c] = "return"
                    THEN WrapperResult(Tool(call[c].tool, call[c].args), response[c])
                    ELSE Raised(outcome[c])]
  /\ hist' = [hist EXCEPT ![c].endEmitted = Len(emitted[c]), ![c].endSio = sio[c]]
  /\ UNCHANGED <<call, tpc, hpc, sio, queue, error, response, outcome, emitted, reconnects>>

\* every step of call c, its wrapper drawn from tools and its replies from replies
Step(c, tools, replies) ==
  \/ /\ cpc[c] = "idle"
     /\ \E w \in tools : \E a \in ArgsOf(w) : wrapper_missing(c, w, a)
     /\ UNCHANGED appVars
  \/ /\ cpc[c] = "idle"
     /\ \E w \in tools : \E a \in ArgsOf(w) : send_photoshop_command(c, w, a)
     /\ UNCHANGED appVars
  \/ get(c) /\ UNCHANGED appVars
  \/ get_expires(c) /\ UNCHANGED appVars
  \/ check(c) /\ UNCHANGED appVars
  \/ finally_disconnect(c) /\ UNCHANGED appVars
  \/ join(c) /\ UNCHANGED appVars
  \/ run_connect(c) /\ UNCHANGED appVars
  \/ run_connect_raises(c) /\ UNCHANGED appVars
  \/ run_wait_raises(c) /\ UNCHANGED appVars
  \/ run_wait_returns(c) /\ UNCHANGED appVars
  \/ run_except(c) /\ UNCHANGED appVars
  \/ run_except_put(c) /\ UNCHANGED appVars
  \/ \E d \in replies : packet_response(c, d) /\ UNCHANGED appVars
  \/ packet_response_disconnect(c) /\ UNCHANGED appVars
  \/ connection_lost(c) /\ UNCHANGED appVars
  \/ reconnect(c) /\ UNCHANGED appVars
  \/ connect_error(c) /\ UNCHANGED appVars
  \/ connect_error_put(c) /\ UNCHANGED appVars

\* The command sender under every reply: one call, made by a wrapper with an
\* argument and by one without.
SenderTools == {"delete_layer", "get_documents"}

Next == \E c \in {1} : Step(c, SenderTools, Replies)

Spec == Init /\ [][Next]_vars

\* The tool surface: one call of any wrapper with any arguments, under a reply
\* of each shape a wrapper tells apart.
ToolReplies ==
  { [status |-> "SUCCESS"],
    [status |-> "SUCCESS", payload |-> "data"],
    [status |-> "ERROR", message |-> "layer not found"],
    [message |-> "layer not found"],
    EmptyOptions }

NextTools == \E c \in {1} : Step(c, Wrappers, ToolReplies)

SpecTools == Init /\ [][NextTools]_vars

\* Two calls in progress on two threads.
ConcTools == {"flatten_all_layers"}
ConcReplies == { [status |-> "SUCCESS"] }

NextConc == \E c \in Calls : Step(c, ConcTools, ConcReplies)

SpecConc == Init /\ [][NextConc]_vars

\* The calling thread is a running thread: whichever of its steps is enabled
\* is eventually taken (get returns or expires; the finally block runs).
Caller(c) ==
  /\ get(c) \/ get_expires(c) \/ check(c) \/ finally_disconnect(c) \/ join(c)
  /\ UNCHANGED appVars

FairSpec == Spec /\ \A c \in {1} : WF_vars(Caller(c))

\* ------------------------------------------------------------------ server.py
\* BUCKET_NAME = os.getenv("OCI_BUCKET_NAME")
BUCKET_NAME == "bucket"

\* d.get(key, default) on request.files, request.form
FormGet(d, key, default) == IF key \in DOMAIN d THEN d[key] ELSE default

\* a request arrives: the handler starts with nothing done
Arrive(r) ==
  /\ spc = "idle"
  /\ request' = r

Served(puts, gets, fault) ==
  [NoServed EXCEPT !.before = bucket, !.puts = puts, !.gets = gets, !.fault = fault]

\* health_check
health_check ==
  /\ Arrive([endpoint |-> "health"])
  /\ http' = Response(200, [status |-> "healthy", service |-> "OCI Object Storage API"])
  /\ served' = Served(<<>>, 0, Returns)
  /\ UNCHANGED <<agent_module, AGENT_AVAILABLE, stored, bucket, spc>>

\* the guard of upload_file as it would be if only a missing part counted
FilePartMissing(file) == IsNone(file)

\* if not file or file.filename == ""
NoFileProvided(file) == IsNone(file) \/ file.filename = ""

\* upload_file as it would be if the form field were ignored
upload_file_under_filename(r, fault) ==
  /\ Arrive(r)
  /\ LET file == FormGet(r.files, "file", None) IN
     IF NoFileProvided(file)
       THEN /\ http' = Response(400, [error |-> <<"No file provided", "">>])
            /\ served' = Served(<<>>, 0, Returns)
            /\ UNCHANGED <<bucket, stored>>
       ELSE LET prompt      == FormGet(r.form, "prompt", "")
                object_name == file.filename
                end         == on_put(object_name, fault)
            IN  /\ served' = Served(<<object_name>>, 0, end)
                /\ CASE end.kind = "returns" ->
                          /\ bucket' = put_object(bucket, object_name, file.stream)
                          /\ stored' = [stored EXCEPT ![object_name] = Uploaded(file.stream)]
                          /\ http' = Response(200, [message |-> "File uploaded successfully",
                                                    object_name |-> object_name,
                                                    prompt |-> prompt,
                                                    bucket |-> BUCKET_NAME])
                     [] end.kind = "ServiceError" ->
                          /\ http' = Response(end.status, [error |-> <<"OCI Service Error: ", end.kind>>])
                          /\ UNCHANGED <<bucket, stored>>
                     [] OTHER ->
                          /\ http' = Response(500, [error |-> <<"Unexpected Error: ", end.kind>>])
                          /\ UNCHANGED <<bucket, stored>>
  /\ UNCHANGED <<agent_module, AGENT_AVAILABLE, spc>>

\* upload_file
upload_file(r, fault) ==
  /\ Arrive(r)
  /\ LET file == FormGet(r.files, "file", None) IN
     IF NoFileProvided(file)
       THEN /\ http' = Response(400, [error |-> <<"No file provided", "">>])
            /\ served' = Served(<<>>, 0, Returns)
            /\ UNCHANGED <<bucket, stored>>
       ELSE LET prompt      == FormGet(r.form, "prompt", "")
                object_name == FormGet(r.form, "object_name", file.filename)
                end         == on_put(object_name, fault)
            IN  /\ served' = Served(<<object_name>>, 0, end)
                /\ CASE end.kind = "returns" ->
                          /\ bucket' = put_object(bucket, object_name, file.stream)
                          /\ stored' = [stored EXCEPT ![object_name] = Uploaded(file.stream)]
                          /\ http' = Response(200, [message |-> "File uploaded successfully",
                                                    object_name |-> object_name,
                                                    prompt |-> prompt,
                                                    bucket |-> BUCKET_NAME])
                     [] end.kind = "ServiceError" ->
                          /\ http' = Response(end.status, [error |-> <<"OCI Service Error: ", end.kind>>])
                          /\ UNCHANGED <<bucket, stored>>
                     [] OTHER ->
                          /\ http' = Response(500, [error |-> <<"Unexpected Error: ", end.kind>>])
                          /\ UNCHANGED <<bucket, stored>>
  /\ UNCHANGED <<agent_module, AGENT_AVAILABLE, spc>>

\* the except clauses shared by download_file, delete_file and get_metadata
ObjectError(end) ==
  IF end.kind = "ServiceError" /\ end.status = 404
    THEN Response(404, [error |-> <<"File not found", "">>])
    ELSE Response(500, [error |-> <<"", end.kind>>])

\* download_file as it would be with list_objects' single except clause
download_file_any_error(r, fault) ==
  /\ Arrive(r)
  /\ r.endpoint = "download"
  /\ LET end == on_object(bucket, r.object_name, fault) IN
       /\ served' = Served(<<>>, 1, end)
       /\ http' = IF end.kind = "returns"
                    THEN Response(200, [object_name |-> r.object_name,
                                        content_type |-> "application/octet-stream",
                                        size |-> Len(bucket[r.object_name]),
                                        data |-> b64encode(bucket[r.object_name])])
                    ELSE Response(500, [error |-> <<"", end.kind>>])
  /\ UNCHANGED <<agent_module, AGENT_AVAILABLE, stored, bucket, spc>>

\* download_file
download_file(r, fault) ==
  /\ Arrive(r)
  /\ r.endpoint = "download"
  /\ LET end == on_object(bucket, r.object_name, fault) IN
       /\ served' = Served(<<>>, 1, end)
       /\ http' = IF end.kind = "returns"
                    THEN Response(200, [object_name |-> r.object_name,
                                        content_type |-> "application/octet-stream",
                                        size |-> Len(bucket[r.object_name]),
                                        data |-> b64encode(bucket[r.object_name])])
                    ELSE ObjectError(end)
  /\ UNCHANGED <<agent_module, AGENT_AVAILABLE, stored, bucket, spc>>

\* list_objects: every exception, a ServiceError too, is answered with 500
list_objects(r, fault) ==
  /\ Arrive(r)
  /\ r.endpoint = "list"
  /\ served' = Served(<<>>, 1, fault)
  /\ http' = IF fault.kind = "returns"
               THEN LET object_list == { [name |-> n, size |-> Len(bucket[n])] :
                                           n \in {m \in DOMAIN bucket : StartsWith(m, r.prefix)} }
                    IN  Response(200, [bucket |-> BUCKET_NAME,
                                       objects |-> object_list,
                                       count |-> Cardinality(object_list)])
               ELSE Response(500, [error |-> <<"", fault.kind>>])
  /\ UNCHANGED <<agent_module, AGENT_AVAILABLE, stored, bucket, spc>>

\* delete_file
delete_file(r, fault) ==
  /\ Arrive(r)
  /\ r.endpoint = "delete"
  /\ LET end == on_object(bucket, r.object_name, fault) IN
       /\ served' = Served(<<>>, 1, end)
       /\ IF end.kind = "returns"
            THEN /\ bucket' = delete_object(bucket, r.object_name)
                 /\ stored' = [stored EXCEPT ![r.object_name] = Deleted]
                 /\ http' = Response(200, [message |-> "File deleted successfully",
                                           object_name |-> r.object_name])
            ELSE /\ http' = ObjectError(end)
                 /\ UNCHANGED <<bucket, stored>>
  /\ UNCHANGED <<agent_module, AGENT_AVAILABLE, spc>>

\* get_metadata
get_metadata(r, fault) ==
  /\ Arrive(r)
  /\ r.endpoint = "metadata"
  /\ LET end == on_object(bucket, r.object_name, fault) IN
       /\ served' = Served(<<>>, 1, end)
       /\ http' = IF end.kind = "returns"
                    THEN Response(200, [object_name |-> r.object_name,
                                        content_type |-> "application/octet-stream",
                                        content_length |-> Len(bucket[r.object_name])])
                    ELSE ObjectError(end)
  /\ UNCHANGED <<agent_module, AGENT_AVAILABLE, stored, bucket, spc>>

\* the response of process_image's outer `except Exception`
ProcessingError(detail) == Response(500, [error |-> <<"Processing error: ", detail>>])

\* process_image up to the download: the guards, in the order of the code
process_image(r) ==
  /\ Arrive(r)
  /\ r.endpoint = "process"
  /\ served' = Served(<<>>, 0, Returns)
  /\ LET Answer(resp) == http' = resp /\ UNCHANGED spc
         data == r.json.data
     IN
     IF ~AGENT_AVAILABLE
       THEN Answer(Response(503, [error |-> <<"Agent processing not available. Photoshop plugin or dependencies may not be configured.", "">>]))
     ELSE IF r.json.kind = "raises"
       THEN Answer(ProcessingError("HTTPException"))
     ELSE IF Falsy(data)
       THEN Answer(Response(400, [error |-> <<"Request body must be JSON", "">>]))
     ELSE IF "dict" \notin DOMAIN data
       THEN Answer(ProcessingError("AttributeError"))
     ELSE IF FormGet(data.dict, "object_name", "") = ""
       THEN Answer(Response(400, [error |-> <<"Missing required field: object_name", "">>]))
     ELSE IF FormGet(data.dict, "prompt", "") = ""
       THEN Answer(Response(400, [error |-> <<"Missing required field: prompt", "">>]))
     ELSE /\ spc' = "get_object"
          /\ http' = NoResponse
  /\ UNCHANGED <<agent_module, AGENT_AVAILABLE, stored, bucket>>

\* obj = object_storage_client.get_object(...); file_data = obj.data.content
process_get_object(fault) ==
  /\ spc = "get_object"
  /\ LET object_name == request.json.data.dict.object_name
         end == on_object(bucket, object_name, fault)
     IN  /\ served' = [served EXCEPT !.gets = @ + 1, !.fault = end]
         /\ CASE end.kind = "returns" ->
                   /\ spc' = "tempfile"
                   /\ UNCHANGED http
              [] end.kind = "ServiceError" /\ end.status = 404 ->
                   /\ spc' = "idle"
                   /\ http' = Response(404, [error |-> <<"File not found in bucket: ", object_name>>])
              [] end.kind = "ServiceError" /\ end.status # 404 ->
                   /\ spc' = "idle"
                   /\ http' = Response(500, [error |-> <<"Failed to retrieve file: ", end.kind>>])
              [] OTHER ->
                   /\ spc' = "idle"
                   /\ http' = ProcessingError(end.kind)
  /\ UNCHANGED <<agent_module, AGENT_AVAILABLE, stored, bucket, request>>

\* with tempfile.NamedTemporaryFile(..., delete=False) as tmp: tmp.write(file_data)
process_tempfile ==
  /\ spc = "tempfile"
  /\ served' = [served EXCEPT !.tmp = @ + 1, !.made = @ + 1]
  /\ spc' = "run_agent"
  /\ UNCHANGED <<agent_module, AGENT_AVAILABLE, stored, bucket, request, http>>

\* the temporary file cannot be created, or is created and cannot be written
\* (OSError): the outer except answers, and nothing removes a created file
process_tempfile_raises(created) ==
  /\ spc = "tempfile"
  /\ served' = [served EXCEPT !.tmp = @ + created, !.made = @ + created]
  /\ spc' = "idle"
  /\ http' = ProcessingError("OSError")
  /\ UNCHANGED <<agent_module, AGENT_AVAILABLE, stored, bucket, request>>

\* result = run_agent(tmp_path, prompt)
process_run_agent(value) ==
  /\ spc = "run_agent"
  /\ served' = [served EXCEPT !.runs = @ + 1, !.ran = value]
  /\ spc' = "unlink"
  /\ UNCHANGED <<agent_module, AGENT_AVAILABLE, stored, bucket, request, http>>

\* result = run_agent(tmp_path, prompt) raises e: run_agent catches what its
\* body raises, so e comes from its own except branch (its print of the
\* error, traceback.print_exc)
process_run_agent_raises(e) ==
  /\ spc = "run_agent"
  /\ served' = [served EXCEPT !.runs = @ + 1, !.raised = e]
  /\ spc' = "except"
  /\ UNCHANGED <<agent_module, AGENT_AVAILABLE, stored, bucket, request, http>>

\* try: os.unlink(tmp_path) / except: pass -- the file is removed, or unlink
\* raises and the file stays
unlink(tmp, removed) == IF removed THEN 0 ELSE tmp

\* process_image as it would be if it answered only with run_agent's message
process_answer_message(removed) ==
  /\ spc = "unlink"
  /\ served' = [served EXCEPT !.tmp = unlink(@, removed)]
  /\ http' = Response(IF served.ran.dict.status = "success" THEN 200 ELSE 400,
                      [message |-> served.ran.dict.message])
  /\ spc' = "idle"
  /\ UNCHANGED <<agent_module, AGENT_AVAILABLE, stored, bucket, request>>

\* process_image as it would be if it answered 200 whatever run_agent returned
process_answer_ok(removed) ==
  /\ spc = "unlink"
  /\ served' = [served EXCEPT !.tmp = unlink(@, removed)]
  /\ http' = Response(200, served.ran.dict)
  /\ spc' = "idle"
  /\ UNCHANGED <<agent_module, AGENT_AVAILABLE, stored, bucket, request>>

\* os.unlink(tmp_path); return jsonify(result), 200 if result["status"] == "success" else 400
process_answer(removed) ==
  /\ spc = "unlink"
  /\ served' = [served EXCEPT !.tmp = unlink(@, removed)]
  /\ http' = Response(IF served.ran.dict.status = "success" THEN 200 ELSE 400,
                      served.ran.dict)
  /\ spc' = "idle"
  /\ UNCHANGED <<agent_module, AGENT_AVAILABLE, stored, bucket, request>>

\* except Exception as e: os.unlink(tmp_path); return jsonify({"status":
\* "error", "message": f"Agent processing failed: {str(e)}", "result": None}), 500
process_except(removed) ==
  /\ spc = "except"
  /\ served' = [served EXCEPT !.tmp = unlink(@, removed)]
  /\ http' = Response(500, [status  |-> "error",
                            message |-> <<"Agent processing failed: ", served.raised>>,
                            result  |-> None])
  /\ spc' = "idle"
  /\ UNCHANGED <<agent_module, AGENT_AVAILABLE, stored, bucket, request>>

\* every request the server may be sent, and every way storage may answer
Requests == UploadRequests \cup ObjectRequests \cup ListRequests \cup ProcessRequests

NextHttp ==
  \/ health_check /\ UNCHANGED exceptServer
  \/ \E r \in UploadRequests : \E fault \in StorageFaults : upload_file(r, fault) /\ UNCHANGED exceptServer
  \/ \E r \in ObjectRequests : \E fault \in StorageFaults : download_file(r, fault) /\ UNCHANGED exceptServer
  \/ \E r \in ListRequests : \E fault \in StorageFaults : list_objects(r, fault) /\ UNCHANGED exceptServer
  \/ \E r \in ObjectRequests : \E fault \in StorageFaults : delete_file(r, fault) /\ UNCHANGED exceptServer
  \/ \E r \in ObjectRequests : \E fault \in StorageFaults : get_metadata(r, fault) /\ UNCHANGED exceptServer
  \/ \E r \in ProcessRequests : process_image(r) /\ UNCHANGED exceptServer
  \/ \E fault \in StorageFaults : process_get_object(fault) /\ UNCHANGED exceptServer
  \/ process_tempfile /\ UNCHANGED exceptServer
  \/ \E created \in {0, 1} : process_tempfile_raises(created) /\ UNCHANGED exceptServer
  \/ \E value \in RunAgentReturns : process_run_agent(value) /\ UNCHANGED exceptServer
  \/ \E e \in RunAgentRaises : process_run_agent_raises(e) /\ UNCHANGED exceptServer
  \/ \E removed \in BOOLEAN : process_answer(removed) /\ UNCHANGED exceptServer
  \/ \E removed \in BOOLEAN : process_except(removed) /\ UNCHANGED exceptServer

\* server.py as loaded: the import of runner succeeded or failed, the bucket
\* holds what earlier uploads left in it, no request is being handled
InitHttp ==
  /\ call = [c \in Calls |-> NoCall]
  /\ cpc = [c \in Calls |-> "idle"]
  /\ tpc = [c \in Calls |-> "unstarted"]
  /\ hpc = [c \in Calls |-> "none"]
  /\ sio = [c \in Calls |-> "disconnected"]
  /\ queue = [c \in Calls |-> <<>>]
  /\ error = [c \in Calls |-> None]
  /\ response = [c \in Calls |-> None]
  /\ outcome = [c \in Calls |-> "none"]
  /\ result = [c \in Calls |-> NoResult]
  /\ emitted = [c \in Calls |-> <<>>]
  /\ reconnects = [c \in Calls |-> 0]
  /\ hist = [c \in Calls |-> NoHist]
  /\ \E m \in AgentModules : \E b \in Buckets : ServerIdle(m, b)
  /\ RunnerIdle
  /\ McpIdle
  /\ MainIdle
  /\ StarterIdle

SpecHttp == InitHttp /\ [][NextHttp]_vars

\* ------------------------------------------------------------------ runner.py
\* run_agent returns value
Return(value) ==
  /\ returned' = value
  /\ rpc' = "returned"

\* run_agent is called and probes the connection:
\* response = send_photoshop_command("getDocuments", {})
run_agent ==
  /\ rpc = "idle"
  /\ send_photoshop_command(1, "get_documents", EmptyOptions)
  /\ rpc' = "probe"
  /\ UNCHANGED <<returned, convo, exceptRunner>>

\* the probe has ended: the inner except answers an exception, the test
\* `response and response.get("status") != "SUCCESS"` answers a failure reply
run_agent_probed ==
  /\ rpc = "probe"
  /\ cpc[1] = "done"
  /\ IF outcome[1] # "return"
       THEN Return(ErrorResult("Connection error: ", outcome[1]))
       ELSE IF ~Falsy(response[1]) /\ Get(response[1], "status", "") # "SUCCESS"
              THEN Return(ErrorResult("Failed to connect to Photoshop. Ensure proxy and plugin are running.", ""))
              ELSE /\ rpc' = "load_component"
                   /\ UNCHANGED returned
  /\ UNCHANGED <<convo, senderVars, exceptRunner>>

\* the order of the calls on the agent runtime
AfterRuntimeCall ==
  [ load_component      |-> "start_conversation",
    start_conversation  |-> "append_user_message",
    append_user_message |-> "execute",
    execute             |-> "get_last_message" ]

\* loader.load_component(agent_spec), runtime_agent.start_conversation(),
\* conversation.append_user_message(full_prompt), conversation.execute():
\* the call completes
runtime_call ==
  /\ rpc \in DOMAIN AfterRuntimeCall
  /\ convo' = Append(convo, rpc)
  /\ rpc' = AfterRuntimeCall[rpc]
  /\ UNCHANGED <<returned, senderVars, exceptRunner>>

\* agent_response = conversation.get_last_message().content; return success
run_agent_success(agent_response) ==
  /\ rpc = "get_last_message"
  /\ convo' = Append(convo, rpc)
  /\ Return(SuccessResult(agent_response))
  /\ UNCHANGED <<senderVars, exceptRunner>>

\* run_agent as it would be without its outer try/except: the exception of
\* the agent runtime leaves run_agent
run_agent_reraise(e) ==
  /\ rpc \in DOMAIN AfterRuntimeCall \cup {"get_last_message"}
  /\ rpc' = "raised"
  /\ UNCHANGED <<returned, convo, senderVars, exceptRunner>>

\* a call on the agent runtime raises e: except Exception returns the error
run_agent_except(e) ==
  /\ rpc \in DOMAIN AfterRuntimeCall \cup {"get_last_message"}
  /\ Return(ErrorResult("Agent execution error: ", e))
  /\ UNCHANGED <<convo, senderVars, exceptRunner>>

\* the steps of call c once send_photoshop_command has been entered
Transport(c, replies) ==
  \/ get(c)
  \/ get_expires(c)
  \/ check(c)
  \/ finally_disconnect(c)
  \/ join(c)
  \/ run_connect(c)
  \/ run_connect_raises(c)
  \/ run_wait_raises(c)
  \/ run_wait_returns(c)
  \/ run_except(c)
  \/ run_except_put(c)
  \/ \E d \in replies : packet_response(c, d)
  \/ packet_response_disconnect(c)
  \/ connection_lost(c)
  \/ reconnect(c)
  \/ connect_error(c)
  \/ connect_error_put(c)

NextRunner ==
  \/ run_agent
  \/ run_agent_probed
  \/ runtime_call
  \/ \E m \in AgentResponses : run_agent_success(m)
  \/ \E e \in RuntimeExceptions : run_agent_except(e)
  \/ Transport(1, Replies) /\ UNCHANGED appVars

\* one call of run_agent, under every reply to its probe
SpecRunner == Init /\ [][NextRunner]_vars

\* Wrapper calls made one after the other, as an agent makes them, with HTTP
\* requests to the server between them.
SeqTools == {"flatten_all_layers"}
SeqReplies == { [status |-> "ERROR", message |-> "layer not found"] }
SeqRequests == { [endpoint |-> "process", json |-> [kind |-> "returns", data |-> None]] }

\* no call of a wrapper is in progress
Quiet == \A c \in Calls : cpc[c] \in {"idle", "done"}

NextSeq ==
  \/ Step(1, SeqTools, SeqReplies)
  \/ cpc[1] = "done" /\ Step(2, SeqTools, SeqReplies)
  \/ Quiet /\ (\E r \in SeqRequests : process_image(r)) /\ UNCHANGED exceptServer

SpecSeq == Init /\ [][NextSeq]_vars

\* ------------------------------------------------------------------ ps-mcp.py
\* get_layer_image as it would be without the test of the status
mcp_get_layer_image_any_status(layer_id, reply) ==
  IF "response" \in DOMAIN reply
    THEN LET image_data == reply.response
             data_url   == FormGet(image_data, "dataUrl", None)
         IN  IF ~IsNone(data_url) /\ data_url # DataUrl("", <<>>)
                  /\ startswith(data_url, JPEG_PREFIX)
               THEN Image(b64decode(after_comma(data_url)), "jpeg")
               ELSE Reply(reply)
    ELSE Reply(reply)

\* get_layer_image, after response = sendCommand(command)
mcp_get_layer_image(layer_id, reply) ==
  IF FormGet(reply, "status", "") = "SUCCESS" /\ "response" \in DOMAIN reply
    THEN LET image_data == reply.response
             data_url   == FormGet(image_data, "dataUrl", None)
         IN  IF ~IsNone(data_url) /\ data_url # DataUrl("", <<>>)
                  /\ startswith(data_url, JPEG_PREFIX)
               THEN Image(b64decode(after_comma(data_url)), "jpeg")
               ELSE Reply(reply)
    ELSE Reply(reply)

\* get_document_image, after response = sendCommand(command)
mcp_get_document_image(reply) ==
  IF FormGet(reply, "status", "") = "SUCCESS" /\ "response" \in DOMAIN reply
    THEN LET image_data == reply.response
             data_url   == FormGet(image_data, "dataUrl", None)
         IN  IF ~IsNone(data_url) /\ data_url # DataUrl("", <<>>)
                  /\ startswith(data_url, JPEG_PREFIX)
               THEN Image(b64decode(after_comma(data_url)), "jpeg")
               ELSE Reply(reply)
    ELSE Reply(reply)

\* the image tools and their commands
ImageCalls ==
  { [tool |-> "get_layer_image", layer_id |-> n] : n \in 0..MaxId }
  \cup { [tool |-> "get_document_image"] }

ImageCommand(c) ==
  IF c.tool = "get_layer_image"
    THEN createCommand("getLayerImage", [layerId |-> c.layer_id])
    ELSE createCommand("getDocumentImage", <<>>)

\* an image tool is called: command = createCommand(...); sendCommand(command)
mcp_tool(c) ==
  /\ mcp.pc = "idle"
  /\ mcp' = [pc |-> "sendCommand", call |-> c, command |-> ImageCommand(c)]
  /\ UNCHANGED <<senderVars, serverVars, runnerVars, mainVars, starterVars>>

\* response = sendCommand(command)
mcp_sendCommand(reply) ==
  /\ mcp.pc = "sendCommand"
  /\ mcp' = [pc |-> "reply", call |-> mcp.call, command |-> mcp.command,
             response |-> reply]
  /\ UNCHANGED <<senderVars, serverVars, runnerVars, mainVars, starterVars>>

\* the tool returns the Image or the reply
mcp_return ==
  /\ mcp.pc = "reply"
  /\ mcp' = [pc |-> "returned", call |-> mcp.call, command |-> mcp.command,
             response |-> mcp.response,
             result |-> IF mcp.call.tool = "get_layer_image"
                          THEN mcp_get_layer_image(mcp.call.layer_id, mcp.response)
                          ELSE mcp_get_document_image(mcp.response)]
  /\ UNCHANGED <<senderVars, serverVars, runnerVars, mainVars, starterVars>>

NextMcp ==
  \/ \E c \in ImageCalls : mcp_tool(c)
  \/ \E reply \in McpReplies : mcp_sendCommand(reply)
  \/ mcp_return

\* one call of an image tool of the MCP server, under every reply
SpecMcp == Init /\ [][NextMcp]_vars

\* --------------------------------------------------------------------- main()
\* main() is called and tests the connection:
\* response = send_photoshop_command("getDocuments", {})
main_probe ==
  /\ main.pc = "idle"
  /\ send_photoshop_command(1, "get_documents", EmptyOptions)
  /\ main' = [main EXCEPT !.pc = "probe"]
  /\ UNCHANGED exceptMain

\* the probe has ended: except Exception prints and returns; any reply,
\* whatever its status, counts as connected
main_probed ==
  /\ main.pc = "probe"
  /\ cpc[1] = "done"
  /\ main' = IF outcome[1] # "return"
               THEN [main EXCEPT !.pc = "returned", !.ended = "Connection failed"]
               ELSE [main EXCEPT !.pc = "load_component"]
  /\ UNCHANGED <<senderVars, exceptMain>>

\* loader.load_component(agent_spec); runtime_agent.start_conversation()
main_load_component ==
  /\ main.pc = "load_component"
  /\ main' = [main EXCEPT !.pc = "input"]
  /\ UNCHANGED <<senderVars, exceptMain>>

\* loading the agent raises e: nothing in main() catches it
main_load_component_raises(e) ==
  /\ main.pc = "load_component"
  /\ main' = [main EXCEPT !.pc = "raised", !.ended = e]
  /\ UNCHANGED <<senderVars, exceptMain>>

\* user_input = input("You: ").strip(); an empty line continues, a quit word
\* breaks, anything else is appended to the conversation
main_input(text) ==
  /\ main.pc = "input"
  /\ main.reads < MaxInputs
  /\ LET user_input == strip(text) IN
       main' =
         IF user_input = <<>>
           THEN [main EXCEPT !.reads = @ + 1, !.user_input = user_input, !.last = "empty"]
         ELSE IF lower(user_input) \in QuitWords
           THEN [main EXCEPT !.reads = @ + 1, !.user_input = user_input, !.last = "quit",
                             !.pc = "returned", !.ended = "quit"]
         ELSE [main EXCEPT !.reads = @ + 1, !.user_input = user_input, !.last = "message",
                           !.sent = Append(@, user_input), !.pc = "execute"]
  /\ UNCHANGED <<senderVars, exceptMain>>

\* the except clauses of the loop as they would be if every exception broke
\* out of it
main_except_break(m, e) ==
  [m EXCEPT !.pc = "returned", !.ended = e, !.last = "raised"]

\* except KeyboardInterrupt: break / except Exception as e: print, and the
\* loop goes on
main_except(m, e) ==
  IF e = "KeyboardInterrupt"
    THEN [m EXCEPT !.pc = "returned", !.ended = e, !.last = "interrupted"]
    ELSE [m EXCEPT !.pc = "input", !.last = "raised"]

\* input() raises e
main_input_raises(e) ==
  /\ main.pc = "input"
  /\ main.reads < MaxInputs
  /\ main' = main_except([main EXCEPT !.reads = @ + 1], e)
  /\ UNCHANGED <<senderVars, exceptMain>>

\* conversation.execute() returns; the last message is printed
main_execute ==
  /\ main.pc = "execute"
  /\ main' = [main EXCEPT !.pc = "input", !.executed = @ + 1, !.last = "answered"]
  /\ UNCHANGED <<senderVars, exceptMain>>

\* conversation.execute() raises e
main_execute_raises(e) ==
  /\ main.pc = "execute"
  /\ main' = main_except(main, e)
  /\ UNCHANGED <<senderVars, exceptMain>>

NextMain ==
  \/ main_probe
  \/ main_probed
  \/ main_load_component
  \/ \E e \in RuntimeExceptions : main_load_component_raises(e)
  \/ \E text \in Inputs : main_input(text)
  \/ \E e \in InputExceptions : main_input_raises(e)
  \/ main_execute
  \/ \E e \in ExecuteExceptions : main_execute_raises(e)
  \/ Transport(1, MainReplies) /\ UNCHANGED appVars

\* one run of main(), under every reply to its probe and every input
SpecMain == Init /\ [][NextMain]_vars

\* ------------------------------------------------------ _start_mcp_server
\* _start_mcp_server(mcp_obj) is called
start_mcp_server(has) ==
  /\ starter.pc = "idle"
  /\ starter' = [starter EXCEPT !.pc = "run", !.has = has]
  /\ UNCHANGED exceptStarter

\* a try block as it would be without its return: the next method follows a
\* method that completed
attempt_without_return(st, method, next, out) ==
  [st EXCEPT !.invoked = Append(@, method),
             !.completed = IF out = "completes" THEN Append(@, method) ELSE @,
             !.starts = IF out \in {"completes", "serves_then_raises", "interrupted"}
                          THEN @ + 1 ELSE @,
             !.pc = IF out = "interrupted" THEN "interrupted" ELSE next]

\* one try block whose method exists: the method is called; `return` when it
\* completed, the next block when it raised an Exception; KeyboardInterrupt
\* leaves the function
attempt(st, method, next, out) ==
  [st EXCEPT !.invoked = Append(@, method),
             !.completed = IF out = "completes" THEN Append(@, method) ELSE @,
             !.starts = IF out \in {"completes", "serves_then_raises", "interrupted"}
                          THEN @ + 1 ELSE @,
             !.pc = CASE out = "completes" -> "returned"
                      [] out = "interrupted" -> "interrupted"
                      [] OTHER -> next]

\* Method 1: if hasattr(mcp_obj, 'run'): mcp_obj.run()
mcp_run(out) ==
  /\ starter.pc = "run"
  /\ starter' = IF "run" \in starter.has
                  THEN attempt(starter, "run", "run_stdio", out)
                  ELSE [starter EXCEPT !.pc = "run_stdio"]
  /\ UNCHANGED exceptStarter

\* Method 2: if hasattr(mcp_obj, 'run_stdio'): mcp_obj.run_stdio()
mcp_run_stdio(out) ==
  /\ starter.pc = "run_stdio"
  /\ starter' = IF "run_stdio" \in starter.has
                  THEN attempt(starter, "run_stdio", "server.run", out)
                  ELSE [starter EXCEPT !.pc = "server.run"]
  /\ UNCHANGED exceptStarter

\* Method 3: if hasattr(mcp_obj, 'server') and hasattr(server, 'run'): server.run()
server_run(out) ==
  /\ starter.pc = "server.run"
  /\ starter' = IF {"server", "server.run"} \subseteq starter.has
                  THEN attempt(starter, "server.run", "run_server", out)
                  ELSE [starter EXCEPT !.pc = "run_server"]
  /\ UNCHANGED exceptStarter

\* Method 4: asyncio.run(run_server()), async with mcp_obj: while True: sleep.
\* The loop has no exit, so the call never completes.
run_server(out) ==
  /\ starter.pc = "run_server"
  /\ out # "completes"
  /\ starter' = attempt(starter, "run_server", "run_transport", out)
  /\ UNCHANGED exceptStarter

\* Method 5: if hasattr(mcp_obj, 'run'): mcp_obj.run(transport="stdio");
\* except TypeError: pass
mcp_run_transport(out) ==
  /\ starter.pc = "run_transport"
  /\ starter' = IF "run" \in starter.has
                  THEN attempt(starter, "run_transport", "sys.exit", out)
                  ELSE [starter EXCEPT !.pc = "sys.exit"]
  /\ UNCHANGED exceptStarter

\* sys.exit(1)
sys_exit ==
  /\ starter.pc = "sys.exit"
  /\ starter' = [starter EXCEPT !.pc = "exited", !.code = 1]
  /\ UNCHANGED exceptStarter

NextStart ==
  \/ \E has \in Shapes : start_mcp_server(has)
  \/ \E out \in StartOutcomes : mcp_run(out)
  \/ \E out \in StartOutcomes : mcp_run_stdio(out)
  \/ \E out \in StartOutcomes : server_run(out)
  \/ \E out \in StartOutcomes : run_server(out)
  \/ \E out \in StartOutcomes : mcp_run_transport(out)
  \/ sys_exit

\* one call of _start_mcp_server, for every mcp_obj and every way its start
\* methods may end
SpecStart == Init /\ [][NextStart]_vars

\* ------------------------------------------------------------ properties
Ended(c) == outcome[c] # "none"

\* C1: when the wait of send_photoshop_command expires and no packet_response,
\* no disconnect and no connection error had been delivered, the call ends by
\* raising TimeoutError.
C1_ExpiryRaisesTimeoutError ==
  \A c \in Calls : (Ended(c) /\ hist[c].quiet) => outcome[c] = "TimeoutError"

\* C2: however the call ends, its connection is closed when it ends and no
\* command_packet is emitted on it afterwards.
C2_ClosedAndSilentAfterEnd ==
  \A c \in Calls :
    (cpc[c] = "done" /\ Ended(c)) =>
      /\ sio[c] # "connected"
      /\ Len(emitted[c]) = hist[c].endEmitted

C4_ConnectFailureRaisesConnectionError ==
  \A c \in Calls :
    (Ended(c) /\ hist[c].failedAtGet) => outcome[c] = "ConnectionError"

\* the caller was woken by the connect_error handler while run() had not yet
\* reached its except clause, and raised ConnectionError
C4_Witness ==
  \E c \in Calls :
    /\ hist[c].failedAtGet
    /\ outcome[c] = "ConnectionError"
    /\ "connect_error" \in hist[c].events
    /\ tpc[c] = "connect_failed"

\* C5: within one call the command_packet is emitted at most once; a call
\* that failed or timed out is never followed by a re-send of its command.
C5_EmittedAtMostOnce ==
  \A c \in Calls : Len(emitted[c]) <= 1

\* C7: every call of send_photoshop_command terminates, also when the proxy
\* never replies and run() never finishes.
C7_CallTerminates ==
  \A c \in Calls : (cpc[c] = "get") ~> (cpc[c] = "done")

\* a call has ended although nothing was ever delivered and run() is still
\* inside sio.wait()
C7_Witness ==
  \E c \in Calls :
    /\ cpc[c] = "done"
    /\ hist[c].quiet
    /\ hist[c].events = {}
    /\ tpc[c] = "wait"

\* C6: two calls in progress together use their own queue and error cell: what
\* a call returns was delivered on its own connection, and it raises only for
\* a failure or a disconnect of its own connection.
C6_CallsAreIsolated ==
  \A c \in Calls :
    /\ outcome[c] = "return" => response[c] \in hist[c].delivered
    /\ outcome[c] = "ConnectionError" =>
         hist[c].events \cap {"connect_error", "connect_raised", "wait_raised"} # {}
    /\ outcome[c] = "TimeoutError" => "disconnect" \in hist[c].events

\* call 1 is returning its reply while call 2, whose connection was lost, has
\* just taken the None sentinel from its own queue
C6_Witness ==
  /\ cpc[1] = "finally"
  /\ outcome[1] = "return"
  /\ hist[1].events = {"packet_response"}
  /\ cpc[2] = "check"
  /\ IsNone(response[2])
  /\ hist[2].events = {"disconnect"}

\* C8: a wrapper whose command reached the proxy has emitted exactly one
\* command_packet, {type: 'command', application: 'photoshop', command:
\* {application: 'photoshop', action, options}}; for delete_layer(layer_id=n)
\* the action is deleteLayer and the options are exactly {layerId: n}.
C8_ExactlyOnePacketOfTheForm ==
  \A c \in Calls :
    emitted[c] # <<>> =>
      /\ Len(emitted[c]) = 1
      /\ DOMAIN emitted[c][1] = {"type", "application", "command"}
      /\ emitted[c][1].type = "command"
      /\ emitted[c][1].application = "photoshop"
      /\ DOMAIN emitted[c][1].command = {"application", "action", "options"}
      /\ emitted[c][1].command.application = "photoshop"
      /\ call[c].tool = "delete_layer" =>
           /\ emitted[c][1].command.action = "deleteLayer"
           /\ emitted[c][1].command.options = [layerId |-> call[c].args.layer_id.int]

FailureTexts ==
  {" Failed: ", " Failed to get documents", " Failed to get layers",
   " Failed to get document info"}

\* C10: for a reply with status SUCCESS the wrapper returns a success string;
\* for any other reply it returns a failure string that carries the reply's
\* message.
C10_FailureCarriesMessage ==
  \A c \in Calls :
    (cpc[c] = "done" /\ outcome[c] = "return") =>
      IF Get(response[c], "status", "") = "SUCCESS"
        THEN result[c].kind = "returned" /\ result[c].text \notin FailureTexts
        ELSE /\ result[c].kind = "returned"
             /\ result[c].text \in FailureTexts
             /\ "message" \in DOMAIN response[c].dict =>
                  result[c].detail = response[c].dict["message"]

\* C11: when the transport call of a wrapper fails (connection failure,
\* expiry of the wait, or disconnect without reply), the wrapper hands the
\* failure to its caller as a returned error string, never as a raised
\* exception, as it does for a reply whose status is not SUCCESS.
C11_TransportFailureReturned ==
  \A c \in Calls :
    (cpc[c] = "done" /\ outcome[c] \in {"ConnectionError", "TimeoutError", "Empty"}) =>
      result[c].kind = "returned"

\* the request in progress has been answered
Answered(endpoint) == request.endpoint = endpoint /\ spc = "idle" /\ http # NoResponse

\* the file part of the upload request in progress
UploadedFile == FormGet(request.files, "file", None)

C13_DownloadAbsentIs404 ==
  (Answered("download") /\ request.object_name \notin DOMAIN served.before
     /\ served.fault = ServiceError(404)) =>
    /\ http.status = 404
    /\ DOMAIN http.body = {"error"}
    /\ bucket = served.before

C13_Witness ==
  /\ Answered("download")
  /\ request.object_name = "a.jpg"
  /\ DOMAIN served.before = {"b.jpg"}
  /\ served.fault = ServiceError(404)
  /\ http.status = 404

\* C14: every endpoint that calls object storage answers a ServiceError of
\* the storage service with 404 when the error is not-found and with 500 for
\* any other ServiceError.
C14_ServiceErrorsMapTo404Or500 ==
  (spc = "idle" /\ http # NoResponse /\ served.fault.kind = "ServiceError") =>
    http.status = IF served.fault.status = 404 THEN 404 ELSE 500

\* C15 as stated: every answer of POST /process has a JSON body with the keys
\* status, message and result.
C15_ProcessBodyAlwaysResult ==
  Answered("process") => DOMAIN http.body = {"status", "message", "result"}

\* C15 as amended: every answer of POST /process to a request for which
\* run_agent was called has a JSON body with the keys status, message and
\* result; a request answered without calling run_agent gets a body with the
\* single key error.
C15_ProcessBodyAfterRunAgent ==
  Answered("process") =>
    DOMAIN http.body = IF served.runs > 0 THEN {"status", "message", "result"}
                                           ELSE {"error"}

C15_Witness ==
  /\ Answered("process")
  /\ served.runs = 1
  /\ http.status = 400
  /\ http.body.status = "error"
  /\ IsNone(http.body.result)

C17_RegistryMatchesAgentModule ==
  agent_module = "agent" =>
    /\ DeclaredTools(agent_module) \subseteq RunnerRegistry
    /\ RunnerRegistry \subseteq Defines(agent_module)
    /\ RunnerImports \subseteq Defines(agent_module)
    /\ AGENT_AVAILABLE

\* the result of call c follows from its own arguments and from what was
\* delivered on its own connection
OwnResult(c) ==
  LET t == Tool(call[c].tool, call[c].args) IN
  IF t.missing
    THEN result[c] = Returned(t.error[1], t.error[2])
    ELSE /\ outcome[c] = "return" =>
              /\ response[c] \in hist[c].delivered
              /\ result[c] = WrapperResult(t, response[c])
         /\ outcome[c] = "ConnectionError" =>
              /\ hist[c].events \cap {"connect_error", "connect_raised", "wait_raised"} # {}
              /\ result[c] = Raised("ConnectionError")
         /\ outcome[c] = "TimeoutError" =>
              /\ "disconnect" \in hist[c].events
              /\ result[c] = Raised("TimeoutError")
         /\ outcome[c] = "Empty" => result[c] = Raised("Empty")

\* C18: no state persists across calls. Whatever wrapper calls and HTTP
\* requests are made, the module-level values stay as they were at load
\* (AGENT_AVAILABLE and the module it was computed from; PROXY_URL,
\* PROXY_TIMEOUT, tools, NAMESPACE and BUCKET_NAME are never assigned), and
\* the result of a wrapper call depends only on its own arguments and on the
\* reply to its own command, not on earlier calls.
C18_NoStateAcrossCalls ==
  /\ [][AGENT_AVAILABLE' = AGENT_AVAILABLE /\ agent_module' = agent_module]_vars
  /\ [](\A c \in Calls : cpc[c] = "done" => OwnResult(c))

\* the second call returned the result of its own reply after the first call
\* had failed to connect and a request had been answered
C18_Witness ==
  /\ cpc[1] = "done"
  /\ result[1] = Raised("ConnectionError")
  /\ cpc[2] = "done"
  /\ outcome[2] = "return"
  /\ result[2] = Returned(" Failed: ", "layer not found")
  /\ Answered("process")

\* the reply has status SUCCESS, has a response field, and the dataUrl of
\* that field starts with the JPEG prefix
JpegReply(r) ==
  /\ "status" \in DOMAIN r
  /\ r.status = "SUCCESS"
  /\ "response" \in DOMAIN r
  /\ "dataUrl" \in DOMAIN r.response
  /\ r.response.dataUrl.head = "data:image/jpeg;base64,"

\* C19: get_layer_image and get_document_image return an Image built from
\* the decoded base64 payload exactly when the reply has status SUCCESS, has
\* a response field and that field's dataUrl starts with
\* 'data:image/jpeg;base64,'; in every other case they return the reply
\* unchanged.
C19_ImageExactlyForJpegReply ==
  mcp.pc = "returned" =>
    IF JpegReply(mcp.response)
      THEN /\ mcp.result.kind = "Image"
           /\ mcp.result.format = "jpeg"
           /\ b64encode(mcp.result.data) = mcp.response.response.dataUrl.payload
           /\ mcp.result.data \in Contents
      ELSE mcp.result = Reply(mcp.response)

C19_Witness ==
  /\ mcp.pc = "returned"
  /\ mcp.call.tool = "get_layer_image"
  /\ JpegReply(mcp.response)
  /\ mcp.result = Image(<<255, 216, 255>>, "jpeg")

\* no failure of connecting or of waiting has happened on call c's connection,
\* so that nothing has been recorded in error[0]
NoErrorRecorded(c) ==
  hist[c].events \cap {"connect_error", "connect_raised", "wait_raised"} = {}

\* C20: when the connection is dropped after connecting and before any
\* packet_response, the wait of send_photoshop_command ends at once (the
\* None sentinel is on the queue, the timeout does not have to elapse) and,
\* no error having been recorded, the call raises TimeoutError; TimeoutError
\* is raised only then: only when the value dequeued is the None sentinel
\* put by the disconnect handler and no error was recorded.
DropObserved(c) ==
  /\ (cpc[c] = "get" /\ hist[c].first = "disconnect") => queue[QueueOf(c)] # <<>>
  /\ (hist[c].first = "disconnect" /\ NoErrorRecorded(c)
        /\ outcome[c] \notin {"none", "Empty"}) =>
       outcome[c] = "TimeoutError"
  /\ outcome[c] = "TimeoutError" =>
       /\ IsNone(response[c])
       /\ "disconnect" \in hist[c].events
       /\ hist[c].first # "packet_response"

C20_DropRaisesTimeoutErrorAtOnce ==
  /\ [](\A c \in Calls : DropObserved(c))
  /\ [][\A c \in Calls :
          (outcome[c] # "TimeoutError" /\ outcome'[c] = "TimeoutError") =>
            /\ cpc[c] = "check"
            /\ IsNone(response[c])
            /\ Falsy(error[ErrorOf(c)])]_vars

C20_Witness ==
  /\ cpc[1] = "done"
  /\ hist[1].first = "disconnect"
  /\ NoErrorRecorded(1)
  /\ IsNone(response[1])
  /\ result[1] = Raised("TimeoutError")

\* C21: once the caller has dequeued a real reply (data put by
\* packet_response, not the None sentinel), the call returns that reply and
\* never raises ConnectionError for it, however the except branch of run()
\* (which sets error[0]) interleaves with the caller's test of error[0].
C21_DequeuedReplyIsReturned ==
  \A c \in Calls :
    (cpc[c] \in {"finally", "join", "done"} /\ ~IsNone(response[c])) =>
      outcome[c] # "ConnectionError"

\* the guards of POST /process as the request in progress meets them
BodyIsJson == request.json.kind = "returns" /\ ~IsNone(request.json.data)
HasField(key) ==
  /\ BodyIsJson
  /\ "dict" \in DOMAIN request.json.data
  /\ FormGet(request.json.data.dict, key, "") # ""
FailedGuard ==
  IF ~AGENT_AVAILABLE THEN "agent"
  ELSE IF ~BodyIsJson THEN "json"
  ELSE IF ~HasField("object_name") THEN "object_name"
  ELSE IF ~HasField("prompt") THEN "prompt"
  ELSE IF served.gets > 0 /\ served.fault # Returns THEN "storage"
  ELSE "none"

\* C22: POST /process calls run_agent only after all guards passed, checked
\* in the order agent available (else 503), body is JSON (else 400),
\* object_name present (else 400), prompt non-empty (else 400), object
\* fetched from storage (404 if absent, 500 on another storage error); on a
\* failed guard no temporary file is created and run_agent is not called,
\* and on the first three failures storage is not accessed.
C22_GuardsBeforeRunAgent ==
  request.endpoint = "process" =>
    /\ (served.made > 0 \/ served.runs > 0) =>
          FailedGuard = "none" /\ served.gets = 1
    /\ FailedGuard \in {"agent", "json", "object_name"} => served.gets = 0
    /\ (Answered("process") /\ FailedGuard # "none") =>
          /\ served.made = 0 /\ served.runs = 0
          /\ http.status =
                CASE FailedGuard = "agent" -> 503
                  [] FailedGuard \in {"json", "object_name", "prompt"} -> 400
                  [] FailedGuard = "storage" ->
                       IF served.fault = ServiceError(404) THEN 404 ELSE 500

\* C23: in POST /process, once the temporary file has been created, it is
\* removed before the response is produced on every path: when run_agent
\* returns success, when it returns an error result, and when it raises.
C23_TempFileRemoved ==
  (Answered("process") /\ served.made > 0) => served.tmp = 0

\* C24: POST /process answers 200 exactly when run_agent returned a result
\* with status 'success'; it answers 400 when run_agent returned status
\* 'error' (a failed connectivity probe included) and 500 when run_agent
\* raised; in the 200 and 400 cases the body is run_agent's result unchanged.
C24_StatusFollowsRunAgent ==
  Answered("process") =>
    /\ http.status = 200 <=>
          (~IsNone(served.ran) /\ served.ran.dict.status = "success")
    /\ (~IsNone(served.ran) /\ served.ran.dict.status = "error") => http.status = 400
    /\ served.raised # "" => http.status = 500
    /\ ~IsNone(served.ran) => http.body = served.ran.dict

C24_Witness ==
  /\ Answered("process")
  /\ served.runs = 1
  /\ served.ran = SuccessResult(PyStr("Done."))
  /\ http = Response(200, served.ran.dict)

\* the probe of run_agent returned a reply whose status is 'SUCCESS'
ProbeSucceeded == outcome[1] = "return" /\ Get(response[1], "status", "") = "SUCCESS"

\* C25: run_agent starts an agent conversation (load_component,
\* start_conversation, append_user_message, execute) only after the
\* getDocuments probe returned a reply with status 'SUCCESS'; if the probe
\* raises, or returns a reply whose status is not 'SUCCESS', run_agent
\* returns an error result, no conversation is started and no further
\* command is sent.
C25_ConversationOnlyAfterProbe ==
  /\ (convo # <<>> \/ rpc \in DOMAIN AfterRuntimeCall) => ProbeSucceeded
  /\ (rpc \notin {"idle", "probe"} /\ ~ProbeSucceeded) =>
        /\ rpc = "returned"
        /\ returned.dict.status = "error"
        /\ convo = <<>>

\* C26: POST /upload with no file part, or with a file whose filename is
\* empty, answers 400 and performs no storage write; the storage contents
\* are unchanged by such a request.
C26_UploadWithoutFileIs400 ==
  (Answered("upload") /\ (IsNone(UploadedFile) \/ UploadedFile.filename = "")) =>
    /\ http.status = 400
    /\ served.puts = <<>>
    /\ bucket = served.before

\* a file part with an empty filename, sent with an object_name to store it
\* under, has been refused
C26_Witness ==
  /\ Answered("upload")
  /\ ~IsNone(UploadedFile)
  /\ UploadedFile.filename = ""
  /\ FormGet(request.form, "object_name", "") = "b.jpg"
  /\ http = Response(400, [error |-> <<"No file provided", "">>])
  /\ served.puts = <<>>

\* C27: after a successful POST /upload stored content c under name n, and
\* with no later upload or delete of n, the object is in the bucket with
\* content c and GET /download/n, when storage answers, answers 200 with
\* data the base64 encoding of c (decoding it gives c back) and size the
\* length of c; after a successful DELETE /delete/n the object is gone and
\* GET /download/n answers 404.
C27_UploadDownloadRoundTrip ==
  /\ \A n \in ObjectNames :
        /\ stored[n].kind = "uploaded" =>
              n \in DOMAIN bucket /\ bucket[n] = stored[n].content
        /\ stored[n].kind = "deleted" => n \notin DOMAIN bucket
  /\ Answered("download") =>
        LET n == request.object_name IN
        /\ (stored[n].kind = "uploaded" /\ served.fault = Returns) =>
              /\ http.status = 200
              /\ http.body.data = b64encode(stored[n].content)
              /\ b64decode(http.body.data) = stored[n].content
              /\ http.body.size = Len(stored[n].content)
        /\ (stored[n].kind = "deleted" /\ served.fault \in {Returns, ServiceError(404)}) =>
              http.status = 404

\* a.jpg was in the bucket, another content was uploaded under its name, and
\* the download answers with the uploaded content
C27_Witness ==
  /\ Answered("download")
  /\ request.object_name = "a.jpg"
  /\ stored["a.jpg"] = Uploaded(<<255, 216, 255>>)
  /\ served.before = bucket
  /\ http.status = 200
  /\ http.body.size = 3
  /\ b64decode(http.body.data) = <<255, 216, 255>>

\* every tested argument of the call is supplied: a number is given (0
\* included), a text or a list is given and not empty
Supplied(w, a) ==
  \A p \in DOMAIN Signature[w] :
    IF Signature[w][p] = "int" THEN ~IsNone(a[p]) ELSE ~Falsy(a[p])

\* C28: a required numeric argument counts as present whenever it is
\* supplied, the value 0 included: every wrapper that requires layer_id or
\* document_id sends its command for id 0, and create_document and
\* scale_layer send their command when a supplied width or height is 0,
\* rather than returning the missing-argument error.
C28_ZeroCountsAsPresent ==
  \A c \in Calls :
    (cpc[c] # "idle" /\ Supplied(call[c].tool, call[c].args)) =>
      /\ ~Tool(call[c].tool, call[c].args).missing
      /\ tpc[c] # "unstarted"

\* the interactive loop of main() has been entered
InLoop == main.pc \in {"input", "execute"} \/ main.reads > 0

LoopGoesOn ==
  /\ main.last = "raised" => (main.pc = "input" /\ main.ended = "none")
  /\ (main.pc = "returned" /\ InLoop) =>
        /\ main.ended \in {"quit", "KeyboardInterrupt"}
        /\ main.ended = "quit" => lower(main.user_input) \in QuitWords
  /\ main.pc = "raised" => ~InLoop
  /\ \A i \in 1..Len(main.sent) :
        main.sent[i] # <<>> /\ lower(main.sent[i]) \notin QuitWords
  /\ (InLoop \/ main.pc = "load_component") => outcome[1] = "return"

\* C29: in the interactive loop of main(), an exception raised while one
\* user message is handled (a tool call's transport failure included) does
\* not end the loop: the next input is read and processed; the loop ends
\* only on the input quit, exit or q (in any case) or on KeyboardInterrupt;
\* an empty input sends nothing to the agent; main() enters the loop only if
\* the initial getDocuments probe did not raise.
C29_LoopSurvivesExceptions ==
  /\ []LoopGoesOn
  /\ [][(main.pc = "input" /\ main'.reads = main.reads + 1
            /\ main'.user_input = <<>> /\ main'.last = "empty") =>
          (main'.sent = main.sent /\ main'.pc = "input")]_vars
  /\ [][(main.pc = "execute" /\ main'.pc # "execute"
            /\ main'.ended # "KeyboardInterrupt") => main'.pc = "input"]_vars

\* the first message failed with an exception, the second was read, sent to
\* the agent and answered
C29_Witness ==
  /\ main.pc = "input"
  /\ Len(main.sent) = 2
  /\ main.executed = 1
  /\ main.last = "answered"
  /\ main.reads = 2

\* the place of a start method in the order of the try blocks
IndexOf(method) == CHOOSE i \in 1..Len(StartMethods) : StartMethods[i] = method

\* the methods mcp_obj offers, in the order of the try blocks
Offered(has) ==
  { i \in 1..Len(StartMethods) :
      CASE i = 1 -> "run" \in has
        [] i = 2 -> "run_stdio" \in has
        [] i = 3 -> {"server", "server.run"} \subseteq has
        [] i = 4 -> TRUE
        [] i = 5 -> "run" \in has }

\* how far the cascade has come: the index of the try block it is at
Reached ==
  CASE starter.pc \in {"idle"} -> 0
    [] starter.pc \in {"sys.exit", "exited"} -> Len(StartMethods) + 1
    [] starter.pc \in {"returned", "interrupted"} ->
         IndexOf(starter.invoked[Len(starter.invoked)]) + 1
    [] OTHER -> IndexOf(starter.pc)

CascadeInOrder ==
  /\ \A i \in 1..Len(starter.invoked) :
        /\ IndexOf(starter.invoked[i]) \in Offered(starter.has)
        /\ i > 1 => IndexOf(starter.invoked[i - 1]) < IndexOf(starter.invoked[i])
  /\ starter.pc # "idle" =>
        { IndexOf(starter.invoked[i]) : i \in 1..Len(starter.invoked) }
          = { k \in Offered(starter.has) : k < Reached }
  /\ Len(starter.completed) <= 1
  /\ starter.completed # <<>> =>
        /\ starter.pc = "returned"
        /\ starter.completed[1] = starter.invoked[Len(starter.invoked)]
  /\ starter.pc = "returned" => starter.completed # <<>>
  /\ starter.pc \in {"sys.exit", "exited"} => starter.completed = <<>>
  /\ starter.code = 1 <=> starter.pc = "exited"

\* C30 as stated: the start methods are tried in the fixed order run(),
\* run_stdio(), server.run(), the async-context-manager loop,
\* run(transport='stdio'); the function returns right after the first method
\* that completes without raising and invokes no later one; a method that
\* raises an Exception is followed by the next method; the process exits
\* with code 1 exactly when no method completed; consequently the server is
\* started at most once per invocation.
C30_StartedAtMostOnce ==
  /\ CascadeInOrder
  /\ starter.starts <= 1

\* C30 as amended: the order, the return after the first method that
\* completes, the next method after one that raises and the exit code hold;
\* at most one method completes, but a method that raised after it had begun
\* to serve is followed by the next one, so a server may be started once per
\* method invoked.
C30_AtMostOneCompletes ==
  /\ CascadeInOrder
  /\ starter.starts <= Len(starter.invoked)

\* run() raised after it had served, the context-manager loop failed, and
\* run(transport='stdio') started the server again and completed
C30_Witness ==
  /\ starter.pc = "returned"
  /\ starter.invoked = <<"run", "run_server", "run_transport">>
  /\ starter.completed = <<"run_transport">>
  /\ starter.starts = 2
====
